---- MODULE Spec2Model ----
(***************************************************************************)
(* Browser-side controllers of the AML operations console, as state        *)
(* machines: RealTimeMonitor (static/js/real-time-monitoring.js),          *)
(* AMLDashboard and AMLAdminPanel (the dashboard and admin scripts),       *)
(* CaseManagement (static/js/case-management.js) and AnalystPanel          *)
(* (static/js/utils.js).                                                   *)
(*                                                                         *)
(* One step of a specification is one browser task: a WebSocket event, a   *)
(* timer callback, a DOM event, or the continuation of an async function   *)
(* after an awaited fetch.  Tasks never preempt each other.                *)
(*                                                                         *)
(* Conventions.  Risk scores are integers in hundredths (0.8 is 80).       *)
(* Times are integers in milliseconds.  A pending setTimeout is a record   *)
(* holding its delay; the callback may run at any later step (the passage  *)
(* of the delay is not measured against the clock variable now).  The DOM  *)
(* elements the scripts look up by id are taken to exist.                  *)
(***************************************************************************)
EXTENDS Integers, Sequences, FiniteSets, TLC

VARIABLES
    \* ---- RealTimeMonitor ----
    cur,                \* readyState of this.websocket: "null", "connecting", "open", "closing", "closed"
    others,             \* live sockets this.websocket no longer refers to: counts by readyState
    isConnected,        \* this.isConnected
    reconnectAttempts,  \* this.reconnectAttempts
    reconnectTimers,    \* pending setTimeout(() => this.setupWebSocket(), delay): sequence of delays
    subscribed,         \* subscribe messages handed to WebSocket.send: set of [own, state]
    transactions,       \* this.monitoringData.transactions
    alerts,             \* this.monitoringData.alerts
    systemMetrics,      \* this.monitoringData.systemMetrics
    filters,            \* this.filters
    filtered,           \* what applyFilters last handed to updateFilteredDisplay
    charts,             \* this.charts: the data of the four charts
    stream,             \* children of #transactionStream
    alertList,          \* children of #alertList tbody
    notifications,      \* children of #alertNotifications
    dismissTimers,      \* pending 10 s removals of notifications: set of alert ids
    sounded,            \* alert ids for which playAlertSound ran
    panels,             \* #connectionStatus, #mlMetrics, #systemMetrics, #pauseMonitoring
    loadPc,             \* position of RealTimeMonitor.loadInitialData
    lastFrame,          \* the last inbound WebSocket frame handled
    connectionErrorShown, \* a terminal connection error was presented
    \* ---- shared browser state ----
    now,                \* Date.now()
    nextId,             \* next id the server gives to a transaction or an alert
    location,           \* window.location: "page" or the URL navigated to
    uncaught,           \* exceptions that left an event handler uncaught
    lastEvent,          \* the task that ran last
    used,               \* how many environment events of each kind have happened
    storage,            \* localStorage: the token stored under each key, or "null"
    requestLog,         \* every REST request issued: [ctl, op, stored, auth]
    responseLog,        \* every REST response handled: [call, status, redirected, rendered, banner]
    \* ---- the REST controllers of the staff pages ----
    page,               \* the controller of the page that is loaded
    inflight,           \* fetches awaiting their response, each with its continuation
    issued,             \* number of fetches issued on this page
    view,               \* what each view of the page shows: the call whose result it renders
    banners,            \* the texts of the error notifications shown
    helper,             \* the pure helper called last: [fn, args, at, returned]
    modal,              \* the form modals of case management that are open
    dashSocket,         \* readyState of the dashboard's this.websocket, "none" on other pages
    currentCaseId,      \* this.currentCaseId of CaseManagement
    openedFor           \* history: the case each form modal was opened for

monitorVars == <<cur, others, isConnected, reconnectAttempts, reconnectTimers, subscribed,
                 transactions, alerts, systemMetrics, filters, filtered, charts, stream,
                 alertList, notifications, dismissTimers, sounded, panels, loadPc,
                 lastFrame, connectionErrorShown>>
sharedVars == <<now, nextId, location, uncaught, lastEvent, used, storage, requestLog,
                responseLog>>
restVars == <<page, inflight, issued, view, banners, helper, modal, dashSocket, currentCaseId,
              openedFor>>
vars == <<monitorVars, sharedVars, restVars>>

----------------------------------------------------------------------------
\* Bounds of the model.
MaxFrames == 2
MaxToggles == 1
MaxTicks == 1
MaxFilterChanges == 1
MaxClicks == 1
MaxBatch == 2
MaxUserRequests == 1
MaxQueryChanges == 3
MaxSubmits == 2
MaxPushes == 1
MaxRefreshTicks == 2
MaxModalClicks == 2

\* Program constants.
maxReconnectAttempts == 10
reconnectInterval == 5000
TransactionCap == 100
AlertCap == 50
DisplayCap == 10
ChartPoints == 20
MinuteMs == 60000

----------------------------------------------------------------------------
\* Array helpers, as the JavaScript methods compute them.
Min(a, b) == IF a < b THEN a ELSE b

\* Array.prototype.slice(0, n)
SliceHead(s, n) == SubSeq(s, 1, Min(n, Len(s)))

\* Array.prototype.slice(-n)
SliceTail(s, n) == IF Len(s) <= n THEN s ELSE SubSeq(s, Len(s) - n + 1, Len(s))

Range(s) == {s[i] : i \in 1..Len(s)}

RemoveAt(s, i) == SubSeq(s, 1, i - 1) \o SubSeq(s, i + 1, Len(s))

RECURSIVE SortedSeq(_)
\* the keys of a set of numbers in ascending order
SortedSeq(S) ==
    IF S = {} THEN <<>>
    ELSE LET m == CHOOSE x \in S : \A y \in S : x <= y
         IN <<m>> \o SortedSeq(S \ {m})

\* String.prototype.includes on strings kept as sequences of characters
Includes(s, sub) ==
    \E i \in 1..(Len(s) - Len(sub) + 1) : SubSeq(s, i, i + Len(sub) - 1) = sub

----------------------------------------------------------------------------
\* Data the server sends.

\* alert_type values, as character sequences
FRAUD_TYPE == <<"F", "R", "A", "U", "D", "_", "X">>
AML_TYPE == <<"A", "M", "L", "_", "X">>
SANCTIONS_TYPE == <<"S", "A", "N", "C", "T", "I", "O", "N", "S">>
ML_TYPE == <<"M", "L", "_", "A">>
NoAlertType == <<>>

TxTemplates ==
    { [risk |-> 30, age |-> 0, amount |-> 100],
      [risk |-> 85, age |-> 3600001, amount |-> 250] }

AlertTemplates ==
    { [risk |-> 65, age |-> 0, type |-> AML_TYPE],
      [risk |-> 85, age |-> 0, type |-> FRAUD_TYPE],
      [risk |-> 30, age |-> 3600001, type |-> ML_TYPE] }

Transaction(id, tpl, at) ==
    [id |-> id, risk_score |-> tpl.risk, timestamp |-> at - tpl.age,
     amount |-> tpl.amount, ml_prediction |-> "none"]

Alert(id, tpl, at) ==
    [id |-> id, risk_score |-> tpl.risk, timestamp |-> at - tpl.age,
     alert_type |-> tpl.type]

\* The body of GET /api/monitoring/transactions/recent: n transactions, newest first.
RecentTransactions(n, first, at) ==
    [i \in 1..n |->
        Transaction(first + n - i,
                    IF i % 2 = 1 THEN [risk |-> 30, age |-> 0, amount |-> 100]
                                 ELSE [risk |-> 85, age |-> MinuteMs, amount |-> 250],
                    at - (i - 1))]

\* The body of GET /api/monitoring/alerts/recent: n alerts, newest first.
RecentAlerts(n, first, at) ==
    [i \in 1..n |->
        Alert(first + n - i,
              IF i % 2 = 1 THEN [risk |-> 65, age |-> 0, type |-> AML_TYPE]
                           ELSE [risk |-> 95, age |-> MinuteMs, type |-> SANCTIONS_TYPE],
              at - (i - 1))]

\* Response sizes: empty, one less and one more than the client's buffer holds.
TxLoadSizes == {0, TransactionCap - 1, TransactionCap + 1}
AlertLoadSizes == {0, AlertCap - 1, AlertCap + 1}

----------------------------------------------------------------------------
\* RealTimeMonitor: pure helpers.

\* getRiskLevel(score)
GetRiskLevel(score) ==
    IF score >= 90 THEN "critical"
    ELSE IF score >= 70 THEN "high"
    ELSE IF score >= 40 THEN "medium"
    ELSE "low"

\* a window that closes at its last millisecond
TimeRangeRejects_Closed(timeRange, timeDiff) ==
    CASE timeRange = "1h" -> timeDiff >= 3600000
      [] timeRange = "4h" -> timeDiff >= 14400000
      [] timeRange = "24h" -> timeDiff >= 86400000
      [] OTHER -> FALSE

\* the switch on this.filters.timeRange of matchesFilter and matchesAlertFilter:
\* TRUE when the item is rejected
TimeRangeRejects(timeRange, timeDiff) ==
    CASE timeRange = "1h" -> timeDiff > 3600000
      [] timeRange = "4h" -> timeDiff > 14400000
      [] timeRange = "24h" -> timeDiff > 86400000
      [] OTHER -> FALSE

\* matchesFilter(transaction)
MatchesFilter(t, f, at) ==
    IF f.riskLevel # "all" /\ GetRiskLevel(t.risk_score) # f.riskLevel THEN FALSE
    ELSE IF TimeRangeRejects(f.timeRange, at - t.timestamp) THEN FALSE
    ELSE TRUE

\* matchesAlertFilter(alert)
MatchesAlertFilter(a, f, at) ==
    IF f.riskLevel # "all" /\ GetRiskLevel(a.risk_score) # f.riskLevel THEN FALSE
    ELSE IF f.alertType # "all"
            /\ ~ \/ (f.alertType = "fraud" /\ Includes(a.alert_type, <<"F", "R", "A", "U", "D">>))
                 \/ (f.alertType = "aml" /\ Includes(a.alert_type, <<"A", "M", "L">>))
                 \/ (f.alertType = "sanction"
                     /\ Includes(a.alert_type, <<"S", "A", "N", "C", "T", "I", "O", "N", "S">>))
         THEN FALSE
    ELSE IF TimeRangeRejects(f.timeRange, at - a.timestamp) THEN FALSE
    ELSE TRUE

\* a buffer that appends and keeps the last 100
AddTransactionToStream_Appending(txs, t) ==
    SliceTail(Append(txs, t), TransactionCap)

\* addTransactionToStream: the buffer after unshift and the slice to 100
AddTransactionToStream(txs, t) ==
    LET u == <<t>> \o txs
    IN IF Len(u) > TransactionCap THEN SliceHead(u, TransactionCap) ELSE u

\* handleNewAlert: the buffer after unshift and the slice to 50
AddAlert(als, a) ==
    LET u == <<a>> \o als
    IN IF Len(u) > AlertCap THEN SliceHead(u, AlertCap) ELSE u

RECURSIVE RemoveOldItems(_, _)
\* the loop "for (i = 10; i < items.length; i++) removeChild(items[i])" over the
\* live children collection (i is 0-based)
RemoveOldItems(items, i) ==
    IF i < Len(items) THEN RemoveOldItems(RemoveAt(items, i + 1), i + 1) ELSE items

\* updateTransactionStreamDisplay(transaction): the children of #transactionStream
UpdateTransactionStreamDisplay(container, t) ==
    LET items == <<[kind |-> "tx", id |-> t.id]>> \o container
    IN IF Len(items) > DisplayCap THEN RemoveOldItems(items, DisplayCap) ELSE items

\* updateAlertDisplay(alert): the children of #alertList tbody
UpdateAlertDisplay_Uncapped(rows, a) ==
    <<[kind |-> "alert", id |-> a.id]>>
        \o SelectSeq(rows, LAMBDA r : r.kind # "no-alerts-row")
UpdateAlertDisplay(rows, a) ==
    LET noRow == {i \in 1..Len(rows) : rows[i].kind = "no-alerts-row"}
        kept == IF noRow = {} THEN rows
                ELSE RemoveAt(rows, CHOOSE i \in noRow : \A j \in noRow : i <= j)
        items == <<[kind |-> "alert", id |-> a.id]>> \o kept
    IN IF Len(items) > DisplayCap THEN SubSeq(items, 1, Len(items) - 1) ELSE items

RECURSIVE IngestRange(_, _, _, _)
\* the iterations lo..hi of transactions.forEach(t => this.addTransactionToStream(t)),
\* in order: the buffer.  (The range is split in halves, and the length of the
\* buffer is taken first, to keep the evaluation shallow.)
IngestRange(txs, batch, lo, hi) ==
    IF Len(txs) >= 0 /\ lo > hi THEN txs
    ELSE IF lo = hi THEN AddTransactionToStream(txs, batch[lo])
    ELSE LET mid == (lo + hi) \div 2
         IN IngestRange(IngestRange(txs, batch, lo, mid), batch, mid + 1, hi)

IngestAll(txs, batch) == IngestRange(txs, batch, 1, Len(batch))

RECURSIVE DisplayRange(_, _, _, _)
\* the iterations lo..hi of forEach(t => this.updateTransactionStreamDisplay(t)),
\* in order: the container
DisplayRange(container, batch, lo, hi) ==
    IF Len(container) >= 0 /\ lo > hi THEN container
    ELSE IF lo = hi THEN UpdateTransactionStreamDisplay(container, batch[lo])
    ELSE LET mid == (lo + hi) \div 2
         IN DisplayRange(DisplayRange(container, batch, lo, mid), batch, mid + 1, hi)

DisplayAll(container, batch) == DisplayRange(container, batch, 1, Len(batch))

RECURSIVE DisplayAlertRange(_, _, _, _)
\* the iterations lo..hi of forEach(a => this.updateAlertDisplay(a)), in order:
\* the rows
DisplayAlertRange(rows, batch, lo, hi) ==
    IF Len(rows) >= 0 /\ lo > hi THEN rows
    ELSE IF lo = hi THEN UpdateAlertDisplay(rows, batch[lo])
    ELSE LET mid == (lo + hi) \div 2
         IN DisplayAlertRange(DisplayAlertRange(rows, batch, lo, mid), batch, mid + 1, hi)

DisplayAllAlerts(rows, batch) == DisplayAlertRange(rows, batch, 1, Len(batch))

----------------------------------------------------------------------------
\* RealTimeMonitor: the charts.  A chart is the record of its label list and
\* its datasets.

\* new Date(y, m, d, h, min, 0, 0).getTime(): the timestamp rounded down to its minute
MinuteKey(ts) == (ts \div MinuteMs) * MinuteMs

RECURSIVE SumRange(_, _, _, _)
\* the amounts of the items lo..hi that fall into the minute
SumRange(data, key, lo, hi) ==
    IF lo > hi THEN 0
    ELSE IF lo = hi
         THEN (IF MinuteKey(data[lo].timestamp) = key THEN data[lo].amount ELSE 0)
    ELSE LET mid == (lo + hi) \div 2
         IN SumRange(data, key, lo, mid) + SumRange(data, key, mid + 1, hi)

\* aggregatedVolume[minuteKey] after the forEach: the amounts of the minute, added up
SumAmounts(data, key) == SumRange(data, key, 1, Len(data))

CountIn(data, key) ==
    Cardinality({i \in 1..Len(data) : MinuteKey(data[i].timestamp) = key})

CountHighIn(data, key) ==
    Cardinality({i \in 1..Len(data) :
                    MinuteKey(data[i].timestamp) = key /\ data[i].risk_score >= 80})

\* Object.keys(aggregated).sort(): the keys are millisecond timestamps of equal
\* digit count, for which the string order is the numeric order
MinuteKeys(data) == SortedSeq({MinuteKey(data[i].timestamp) : i \in 1..Len(data)})

\* An optional array argument: given is FALSE when the argument is omitted (null).
NoData == [given |-> FALSE, data |-> <<>>]
Given(data) == [given |-> TRUE, data |-> data]

\* updateTransactionFlowChart()
UpdateTransactionFlowChart_LabelsOnly(chart, txs, at) ==
    LET recent == SelectSeq(txs, LAMBDA t : t.timestamp > at - 60000)
        high == SelectSeq(recent, LAMBDA t : t.risk_score >= 80)
    IN [labels |-> SliceTail(Append(chart.labels, at), ChartPoints),
        d0 |-> Append(chart.d0, Len(recent)),
        d1 |-> Append(chart.d1, Len(high))]
UpdateTransactionFlowChart(chart, txs, at) ==
    LET recent == SelectSeq(txs, LAMBDA t : t.timestamp > at - 60000)
        high == SelectSeq(recent, LAMBDA t : t.risk_score >= 80)
        labels == Append(chart.labels, at)
        d0 == Append(chart.d0, Len(recent))
        d1 == Append(chart.d1, Len(high))
    IN IF Len(labels) > ChartPoints
       THEN [labels |-> SliceTail(labels, ChartPoints), d0 |-> SliceTail(d0, ChartPoints),
             d1 |-> SliceTail(d1, ChartPoints)]
       ELSE [labels |-> labels, d0 |-> d0, d1 |-> d1]

\* updateVolumeChart(historicalData = null)
UpdateVolumeChart(chart, txs, historicalData) ==
    LET dataToProcess == IF historicalData.given THEN historicalData.data ELSE txs
        start == IF historicalData.given THEN [labels |-> <<>>, d0 |-> <<>>] ELSE chart
        keys == MinuteKeys(dataToProcess)
        labels == start.labels \o keys
        d0 == start.d0 \o [i \in 1..Len(keys) |-> SumAmounts(dataToProcess, keys[i])]
    IN IF Len(labels) > ChartPoints
       THEN [labels |-> SliceTail(labels, ChartPoints), d0 |-> SliceTail(d0, ChartPoints)]
       ELSE [labels |-> labels, d0 |-> d0]

\* updateAlertTrendsChart(historicalData = null)
UpdateAlertTrendsChart(chart, als, historicalData) ==
    LET dataToProcess == IF historicalData.given THEN historicalData.data ELSE als
        start == IF historicalData.given THEN [labels |-> <<>>, d0 |-> <<>>, d1 |-> <<>>]
                 ELSE chart
        keys == MinuteKeys(dataToProcess)
        labels == start.labels \o keys
        d0 == start.d0 \o [i \in 1..Len(keys) |-> CountIn(dataToProcess, keys[i])]
        d1 == start.d1 \o [i \in 1..Len(keys) |-> CountHighIn(dataToProcess, keys[i])]
    IN IF Len(labels) > ChartPoints
       THEN [labels |-> SliceTail(labels, ChartPoints), d0 |-> SliceTail(d0, ChartPoints),
             d1 |-> SliceTail(d1, ChartPoints)]
       ELSE [labels |-> labels, d0 |-> d0, d1 |-> d1]

\* updateRiskDistributionChart(): the counts of low, medium, high, critical
UpdateRiskDistributionChart(als) ==
    LET n(level) == Cardinality({i \in 1..Len(als) : GetRiskLevel(als[i].risk_score) = level})
    IN <<n("low"), n("medium"), n("high"), n("critical")>>

\* initializeCharts(): four charts without data
InitialCharts ==
    [flow |-> [labels |-> <<>>, d0 |-> <<>>, d1 |-> <<>>],
     volume |-> [labels |-> <<>>, d0 |-> <<>>],
     trends |-> [labels |-> <<>>, d0 |-> <<>>, d1 |-> <<>>],
     risk |-> <<0, 0, 0, 0>>]

----------------------------------------------------------------------------
\* REST requests and responses, as the controllers see them.

\* The Authorization header of a request: absent when fetch gets no headers
\* object (omitted, null or undefined), else the template `Bearer ${token}`, which
\* renders a missing token as the text null.
NoAuthorization == <<>>
Bearer(token) == <<"Bearer", token>>

\* response.status; 0 stands for a fetch that rejects (network failure)
RestStatuses == {200, 401, 500, 0}
IsOk(status) == status = 200

Request(ctl, op, stored, auth) == [ctl |-> ctl, op |-> op, stored |-> stored, auth |-> auth]

\* a fetch awaiting its response: the endpoint, its number on the page, the async
\* function that awaits it (cont), the load cycle it belongs to (0: none), the query
\* string and the Authorization header sent
Call(ctl, op, seq, cont, cycle, query, auth) ==
    [ctl |-> ctl, op |-> op, seq |-> seq, cont |-> cont, cycle |-> cycle,
     query |-> query, auth |-> auth]

\* what the code after "await fetch(...)" did with a response; banner is the text
\* of the error notification shown, "" when none
Handled(call, status, redirected, rendered, banner) ==
    [call |-> call, status |-> status, redirected |-> redirected,
     rendered |-> rendered, banner |-> banner]

\* The value a call site hands to fetch as init.headers.  null makes fetch reject
\* with a TypeError before any request goes out (HeadersInit is not nullable);
\* undefined counts as a missing member, and a Promise is an object without
\* enumerable own properties: both give a request without Authorization.
NullHeaders == [kind |-> "null", auth |-> NoAuthorization]
UndefinedHeaders == [kind |-> "undefined", auth |-> NoAuthorization]
PromiseHeaders == [kind |-> "promise", auth |-> NoAuthorization]
HeadersObject(token) == [kind |-> "object", auth |-> Bearer(token)]

FetchRejects(headers) == headers.kind = "null"

\* fetch(url, {headers}): the request that goes out, none when fetch rejects
Fetch(ctl, op, seq, cont, cycle, query, headers) ==
    IF FetchRejects(headers) THEN {}
    ELSE {Call(ctl, op, seq, cont, cycle, query, headers.auth)}

LoginPage == "/admin/login"

\* getAuthHeaders() of CaseManagement, AMLDashboard and AnalystPanel
GetAuthHeaders(token) ==
    IF token = "null" THEN [redirect |-> TRUE, headers |-> NullHeaders]
    ELSE [redirect |-> FALSE, headers |-> HeadersObject(token)]

\* getAuthHeaders() of AMLAdminPanel: the token is not examined
AdminGetAuthHeaders(token) == [redirect |-> FALSE, headers |-> HeadersObject(token)]

\* if (response.status === 401) { location.href = login; return; }
\* if (!response.ok) throw ...;  render
\* A rejected fetch (status 0) throws as well; text is what the catch block shows.
Checked(call, status, text) ==
    Handled(call, status, status = 401, IsOk(status),
            IF status \in {200, 401} THEN "" ELSE text)

\* if (!response.ok) throw ...;  render
Unchecked(call, status, text) ==
    Handled(call, status, FALSE, IsOk(status), IF IsOk(status) THEN "" ELSE text)

\* what a function did up to its first await: whether it set location.href, the
\* requests it sent and the error texts it showed
Started(redirect, calls, shown) == [redirect |-> redirect, calls |-> calls, shown |-> shown]
Nothing == Started(FALSE, {}, {})

\* the endpoints whose results the staff pages render
ViewKeys ==
    {"cases/", "cases/metrics", "cases/distribution", "admin/users", "POST cases/", "cases/id",
     "dashboard/stats", "dashboard/aml-control-summary", "reports/charts-data", "alerts/",
     "alerts/id", "admin/system-status", "admin/configuration", "admin/ml-models",
     "admin/sanctions/lists", "monitoring/transactions/recent", "monitoring/alerts/recent"}
NoResult == Call("", "", 0, "", 0, "", NoAuthorization)
NoView == [k \in ViewKeys |-> NoResult]

\* no helper has been called
NoDate == [given |-> FALSE, value |-> 0]
DateAt(t) == [given |-> TRUE, value |-> t]
NoHelper == [fn |-> "none", args |-> NoDate, at |-> 0, returned |-> <<>>]

\* The form modals of case management and the submit handlers of their forms.
CaseModals == {"updateCaseModal", "closeCaseModal", "escalateCaseModal"}
CaseHandlers == {"handleUpdateCase", "handleCloseCase", "handleEscalateCase"}

\* the cases of the table; this.currentCaseId = null in the constructor
CaseIds == {"A", "B"}
NoCase == "null"

\* no REST controller is at work
RestIdle ==
    /\ page = "RealTimeMonitor"
    /\ inflight = {}
    /\ issued = 0
    /\ view = NoView
    /\ banners = {}
    /\ helper = NoHelper
    /\ modal = {}
    /\ dashSocket = "none"
    /\ currentCaseId = NoCase
    /\ openedFor = [m \in CaseModals |-> NoCase]

----------------------------------------------------------------------------
\* RealTimeMonitor: state after the constructor and the synchronous part of init():
\* the first socket is connecting, the charts are empty, the listeners are set and
\* loadInitialData waits for its first fetch.

Placeholder == [kind |-> "p", id |-> 0]
NoAlertsRow == [kind |-> "no-alerts-row", id |-> 0]
NoSockets == [connecting |-> 0, open |-> 0, closing |-> 0]
NoFrame == [json |-> TRUE, type |-> "none"]

InitMonitor ==
    /\ cur = "connecting"
    /\ others = NoSockets
    /\ isConnected = FALSE
    /\ reconnectAttempts = 0
    /\ reconnectTimers = <<>>
    /\ subscribed = {}
    /\ transactions = <<>>
    /\ alerts = <<>>
    /\ systemMetrics = <<>>    \* {}
    /\ filters = [riskLevel |-> "all", alertType |-> "all", timeRange |-> "1h"]
    /\ filtered = [given |-> FALSE, transactions |-> <<>>, alerts |-> <<>>]
    /\ charts = InitialCharts
    /\ stream = <<Placeholder>>
    /\ alertList = <<NoAlertsRow>>
    /\ notifications = <<>>
    /\ dismissTimers = {}
    /\ sounded = {}
    /\ panels = [connectionStatus |-> "none", mlMetrics |-> "none",
                 systemMetrics |-> "none", pauseBtn |-> "Pause"]
    /\ loadPc = "awaitTransactions"
    /\ lastFrame = NoFrame
    /\ connectionErrorShown = FALSE

NoUse == [frames |-> 0, toggles |-> 0, ticks |-> 0, filterChanges |-> 0, clicks |-> 0,
          requests |-> 0]

InitShared ==
    /\ now = 100000000
    /\ nextId = 1
    /\ location = "page"
    /\ uncaught = {}
    /\ lastEvent = "init"
    /\ used = NoUse
    /\ responseLog = {}
    /\ RestIdle

----------------------------------------------------------------------------
\* RealTimeMonitor: the connection.

\* setupWebSocket(): this.websocket = new WebSocket(wsUrl).  The socket the field
\* referred to keeps its handlers and lives on until its close event.
DetachCurrent ==
    IF cur \in {"connecting", "open", "closing"}
    THEN [others EXCEPT ![cur] = @ + 1]
    ELSE others

\* the delay attemptReconnect passes to setTimeout
ReconnectDelay(attempt) == reconnectInterval

\* The methods class RealTimeMonitor defines.  A call this.m() of a name that is
\* not among them throws a TypeError.
RealTimeMonitorMethods ==
    {"init", "setupWebSocket", "attemptReconnect", "subscribeToUpdates",
     "handleRealtimeMessage", "handleTransactionStream", "addTransactionToStream",
     "updateTransactionStreamDisplay", "handleNewAlert", "handleMLPrediction",
     "handleSystemMetrics", "initializeCharts", "initTransactionFlowChart",
     "initRiskDistributionChart", "updateTransactionFlowChart", "setupEventListeners",
     "applyFilters", "matchesFilter", "showAlertNotification", "playAlertSound",
     "updateConnectionStatus", "getRiskLevel", "maskCustomerId", "formatCurrency",
     "initVolumeChart", "initAlertTrendsChart", "updateVolumeChart",
     "updateAlertTrendsChart", "updateRiskDistributionChart", "updateAlertDisplay",
     "updateMLMetrics", "updateSystemMetricsDisplay", "handleRiskScoreUpdate",
     "toggleMonitoring", "clearTransactionStream", "exportRealTimeData",
     "acknowledgeAlert", "startInvestigation", "matchesAlertFilter",
     "updateFilteredDisplay", "loadInitialData"}

\* if (this.reconnectAttempts < this.maxReconnectAttempts)
MayReconnect_Inclusive(attempts) == attempts <= maxReconnectAttempts
MayReconnect(attempts) == attempts < maxReconnectAttempts

\* attemptReconnect(), entered with isConnected already FALSE
AttemptReconnect ==
    IF MayReconnect(reconnectAttempts)
    THEN /\ reconnectAttempts' = reconnectAttempts + 1
         /\ reconnectTimers' = Append(reconnectTimers, ReconnectDelay(reconnectAttempts + 1))
         /\ UNCHANGED <<uncaught, connectionErrorShown>>
    ELSE /\ UNCHANGED <<reconnectAttempts, reconnectTimers>>
         \* console.error('Max reconnection attempts reached'), then
         \* this.showConnectionError()
         /\ IF "showConnectionError" \in RealTimeMonitorMethods
            THEN /\ connectionErrorShown' = TRUE
                 /\ UNCHANGED uncaught
            ELSE /\ uncaught' = uncaught \cup {"TypeError: this.showConnectionError is not a function"}
                 /\ UNCHANGED connectionErrorShown

\* A socket of the given readyState exists: own is TRUE for this.websocket.
HasSocket(own, state) == IF own THEN cur = state ELSE others[state] > 0

\* onopen of a connecting socket
SocketOpen(own) ==
    /\ location = "page"
    /\ HasSocket(own, "connecting")
    /\ cur' = IF own THEN "open" ELSE cur
    /\ others' = IF own THEN others
                 ELSE [others EXCEPT !.connecting = @ - 1, !.open = @ + 1]
    /\ isConnected' = TRUE
    /\ reconnectAttempts' = 0
    /\ panels' = [panels EXCEPT !.connectionStatus = "Connected"]
    \* subscribeToUpdates(): this.websocket.send(...) on whatever socket the field
    \* holds now; send throws on a connecting socket and drops the data on a
    \* closing or closed one
    /\ LET target == IF own THEN "open" ELSE cur
       IN IF target = "connecting"
          THEN /\ uncaught' = uncaught \cup {"InvalidStateError: send on a connecting socket"}
               /\ UNCHANGED subscribed
          ELSE /\ subscribed' = subscribed \cup {[own |-> own, state |-> target]}
               /\ UNCHANGED uncaught
    /\ lastEvent' = "open"
    /\ UNCHANGED <<reconnectTimers, transactions, alerts, systemMetrics, filters, filtered,
                   charts, stream, alertList, notifications, dismissTimers, sounded, loadPc,
                   lastFrame, connectionErrorShown>>
    /\ UNCHANGED <<now, nextId, location, used, storage, restVars, requestLog, responseLog>>

\* onclose of a socket (a failed connection, a lost connection, or the end of close())
SocketClose(own) ==
    /\ location = "page"
    /\ \E state \in {"connecting", "open", "closing"} :
          /\ HasSocket(own, state)
          /\ cur' = IF own THEN "closed" ELSE cur
          /\ others' = IF own THEN others ELSE [others EXCEPT ![state] = @ - 1]
    /\ isConnected' = FALSE
    /\ panels' = [panels EXCEPT !.connectionStatus = "Disconnected"]
    /\ AttemptReconnect
    /\ lastEvent' = IF reconnectAttempts < maxReconnectAttempts THEN "close" ELSE "close at ceiling"
    /\ UNCHANGED <<subscribed, transactions, alerts, systemMetrics, filters, filtered,
                   charts, stream, alertList, notifications, dismissTimers, sounded, loadPc,
                   lastFrame>>
    /\ UNCHANGED <<now, nextId, location, used, storage, restVars, requestLog, responseLog>>

\* onerror: console.error only
SocketError ==
    /\ location = "page"
    /\ \E state \in {"connecting", "open"} : cur = state \/ others[state] > 0
    /\ lastEvent' = "error"
    /\ UNCHANGED monitorVars
    /\ UNCHANGED <<now, nextId, location, uncaught, used, storage, restVars, requestLog, responseLog>>

\* the callback of attemptReconnect's setTimeout: this.setupWebSocket()
ReconnectTimerFire ==
    /\ location = "page"
    /\ reconnectTimers # <<>>
    /\ reconnectTimers' = Tail(reconnectTimers)
    /\ others' = DetachCurrent
    /\ cur' = "connecting"
    /\ lastEvent' = "reconnect"
    /\ UNCHANGED <<isConnected, reconnectAttempts, subscribed, transactions, alerts,
                   systemMetrics, filters, filtered, charts, stream, alertList,
                   notifications, dismissTimers, sounded, panels, loadPc, lastFrame,
                   connectionErrorShown>>
    /\ UNCHANGED <<now, nextId, location, uncaught, used, storage, restVars, requestLog, responseLog>>

\* toggleMonitoring(): the click on #pauseMonitoring
ToggleMonitoring ==
    /\ location = "page"
    /\ used.toggles < MaxToggles
    /\ used' = [used EXCEPT !.toggles = @ + 1]
    /\ IF isConnected
       THEN \* this.websocket.close(): the close event follows later
            /\ cur' = IF cur \in {"connecting", "open"} THEN "closing" ELSE cur
            /\ panels' = [panels EXCEPT !.pauseBtn = "Resume"]
            /\ UNCHANGED others
       ELSE /\ others' = DetachCurrent
            /\ cur' = "connecting"
            /\ panels' = [panels EXCEPT !.pauseBtn = "Pause"]
    /\ lastEvent' = IF isConnected THEN "pause" ELSE "resume"
    /\ UNCHANGED <<isConnected, reconnectAttempts, reconnectTimers, subscribed, transactions,
                   alerts, systemMetrics, filters, filtered, charts, stream, alertList,
                   notifications, dismissTimers, sounded, loadPc, lastFrame,
                   connectionErrorShown>>
    /\ UNCHANGED <<now, nextId, location, uncaught, storage, restVars, requestLog, responseLog>>

----------------------------------------------------------------------------
\* RealTimeMonitor: inbound frames.

\* The frames the server may send next.  A frame is the text of event.data: json
\* is FALSE for text JSON.parse rejects.
TransactionBatches ==
    UNION {{[i \in 1..k |-> Transaction(nextId + i - 1, tpls[i], now)] :
               tpls \in [1..k -> TxTemplates]} : k \in 1..MaxBatch}

Frames ==
    {[json |-> TRUE, type |-> "transaction_stream", data |-> b] : b \in TransactionBatches}
    \cup {[json |-> TRUE, type |-> "alert_generated", data |-> Alert(nextId, a, now)] :
             a \in AlertTemplates}
    \cup {[json |-> TRUE, type |-> "ml_prediction",
           data |-> [transaction_id |-> id, prediction |-> "fraud", confidence |-> 90]] :
             id \in {0} \cup {transactions[i].id : i \in 1..Min(1, Len(transactions))}}
    \cup {[json |-> TRUE, type |-> "system_metrics", data |-> [cpu_usage |-> 50]],
          [json |-> TRUE, type |-> "risk_score_update", data |-> [risk_score |-> 50]],
          \* a type outside the switch, with a payload that looks like metrics
          [json |-> TRUE, type |-> "heartbeat", data |-> [cpu_usage |-> 60]],
          [json |-> FALSE, type |-> "none"]}

\* how many ids of the server a frame consumes
IdsIn(frame) ==
    CASE frame.type = "transaction_stream" -> Len(frame.data)
      [] frame.type = "alert_generated" -> 1
      [] OTHER -> 0

\* handleMLPrediction: the buffer with the prediction written into the first
\* transaction of that id
WithPrediction(txs, prediction) ==
    LET hits == {i \in 1..Len(txs) : txs[i].id = prediction.transaction_id}
    IN IF hits = {} THEN txs
       ELSE LET k == CHOOSE i \in hits : \A j \in hits : i <= j
            IN [txs EXCEPT ![k].ml_prediction = prediction.prediction]

\* showAlertNotification(alert): the children of #alertNotifications
ShowAlertNotification(container, a) ==
    Append(container, [id |-> a.id, level |-> GetRiskLevel(a.risk_score)])

\* showAlertNotification(alert): whether the 10 s removal is scheduled
AutoDismissed(a) == a.risk_score < 60

\* handleNewAlert(alert): whether playAlertSound runs
PlaysSound(a) == a.risk_score >= 80

\* the switch of handleRealtimeMessage(message): the case a type selects
HandleRealtimeMessage_ByPayload(type) ==
    IF type \in {"transaction_stream", "alert_generated", "ml_prediction", "system_metrics",
                 "risk_score_update"}
    THEN type ELSE "system_metrics"
HandleRealtimeMessage(type) ==
    IF type \in {"transaction_stream", "alert_generated", "ml_prediction", "system_metrics",
                 "risk_score_update"}
    THEN type ELSE "default"

\* onmessage of an open socket: JSON.parse(event.data), then handleRealtimeMessage
SocketMessage(own, frame) ==
    /\ location = "page"
    /\ HasSocket(own, "open")
    /\ used' = [used EXCEPT !.frames = @ + 1]
    /\ lastFrame' = frame
    /\ nextId' = nextId + IdsIn(frame)
    /\ lastEvent' = "message"
    /\ uncaught' = IF frame.json THEN uncaught
                   ELSE uncaught \cup {"SyntaxError: JSON.parse"}
    /\ CASE frame.json /\ HandleRealtimeMessage(frame.type) = "transaction_stream" ->
              /\ transactions' = IngestAll(transactions, frame.data)
              /\ stream' = DisplayAll(stream, frame.data)
              /\ charts' = [charts EXCEPT
                    !.flow = UpdateTransactionFlowChart(@, transactions', now),
                    !.volume = UpdateVolumeChart(@, transactions', NoData)]
              /\ UNCHANGED <<alerts, systemMetrics, alertList, notifications,
                             dismissTimers, sounded, panels>>
         [] frame.json /\ HandleRealtimeMessage(frame.type) = "alert_generated" ->
              /\ alerts' = AddAlert(alerts, frame.data)
              /\ notifications' = ShowAlertNotification(notifications, frame.data)
              /\ dismissTimers' = IF AutoDismissed(frame.data)
                                  THEN dismissTimers \cup {frame.data.id}
                                  ELSE dismissTimers
              /\ alertList' = UpdateAlertDisplay(alertList, frame.data)
              /\ charts' = [charts EXCEPT
                    !.risk = UpdateRiskDistributionChart(alerts'),
                    !.trends = UpdateAlertTrendsChart(@, alerts', NoData)]
              /\ sounded' = IF PlaysSound(frame.data) THEN sounded \cup {frame.data.id}
                            ELSE sounded
              /\ UNCHANGED <<transactions, systemMetrics, stream, panels>>
         [] frame.json /\ HandleRealtimeMessage(frame.type) = "ml_prediction" ->
              /\ panels' = [panels EXCEPT !.mlMetrics = frame.data]
              /\ transactions' = WithPrediction(transactions, frame.data)
              /\ UNCHANGED <<alerts, systemMetrics, charts, stream, alertList,
                             notifications, dismissTimers, sounded>>
         [] frame.json /\ HandleRealtimeMessage(frame.type) = "system_metrics" ->
              /\ systemMetrics' = frame.data
              /\ panels' = [panels EXCEPT !.systemMetrics = frame.data]
              /\ UNCHANGED <<transactions, alerts, charts, stream, alertList,
                             notifications, dismissTimers, sounded>>
         [] OTHER ->
              \* risk_score_update and unknown types: console.log only;
              \* unparsable text: JSON.parse throws before the dispatch
              UNCHANGED <<transactions, alerts, systemMetrics, charts, stream, alertList,
                          notifications, dismissTimers, sounded, panels>>
    /\ UNCHANGED <<cur, others, isConnected, reconnectAttempts, reconnectTimers, subscribed,
                   filters, filtered, loadPc, connectionErrorShown>>
    /\ UNCHANGED <<now, location, storage, restVars, requestLog, responseLog>>

----------------------------------------------------------------------------
\* RealTimeMonitor: loadInitialData().  init() reaches it in the task of the
\* constructor, so its first fetch is issued before any socket event is handled.

FirstLoadRequest(token) ==
    Request("RealTimeMonitor", "transactions/recent", token, NoAuthorization)

\* the continuation after "await fetch('/api/monitoring/transactions/recent')"
LoadTransactionsResponse(status, n) ==
    /\ location = "page"
    /\ loadPc = "awaitTransactions"
    /\ IsOk(status) \/ n = 0
    /\ responseLog' = responseLog \cup
          {Handled(Call("RealTimeMonitor", "transactions/recent", 1, "loadInitialData", 1, "",
                        NoAuthorization), status, FALSE, IsOk(status), "")}
    /\ lastEvent' = "loadTransactions"
    /\ IF status = 0
       THEN \* the fetch rejects: catch (error) { console.error(...) }
            /\ loadPc' = "done"
            /\ UNCHANGED <<transactions, nextId, requestLog>>
       ELSE /\ transactions' = IF IsOk(status) THEN RecentTransactions(n, nextId, now)
                               ELSE transactions
            /\ nextId' = nextId + n
            \* fetch('/api/monitoring/alerts/recent')
            /\ requestLog' = requestLog \cup
                  {Request("RealTimeMonitor", "alerts/recent", storage.admin_token,
                           NoAuthorization)}
            /\ loadPc' = "awaitAlerts"
    /\ UNCHANGED <<cur, others, isConnected, reconnectAttempts, reconnectTimers, subscribed,
                   alerts, systemMetrics, filters, filtered, charts, stream, alertList,
                   notifications, dismissTimers, sounded, panels, lastFrame,
                   connectionErrorShown>>
    /\ UNCHANGED <<now, location, uncaught, used, storage, restVars>>

\* the continuation after "await fetch('/api/monitoring/alerts/recent')", to the
\* end of the function
LoadAlertsResponse(status, n) ==
    /\ location = "page"
    /\ loadPc = "awaitAlerts"
    /\ IsOk(status) \/ n = 0
    /\ responseLog' = responseLog \cup
          {Handled(Call("RealTimeMonitor", "alerts/recent", 2, "loadInitialData", 1, "",
                        NoAuthorization), status, FALSE, IsOk(status), "")}
    /\ lastEvent' = "loadAlerts"
    /\ loadPc' = "done"
    /\ IF status = 0
       THEN UNCHANGED <<alerts, alertList, charts, nextId>>
       ELSE /\ alerts' = IF IsOk(status) THEN RecentAlerts(n, nextId, now) ELSE alerts
            /\ nextId' = nextId + n
            /\ alertList' = IF IsOk(status) THEN DisplayAllAlerts(alertList, alerts')
                            ELSE alertList
            /\ charts' =
                  [risk |-> UpdateRiskDistributionChart(alerts'),
                   trends |-> UpdateAlertTrendsChart(charts.trends, alerts', Given(alerts')),
                   volume |-> UpdateVolumeChart(charts.volume, transactions,
                                                Given(transactions)),
                   flow |-> UpdateTransactionFlowChart(charts.flow, transactions, now)]
    /\ UNCHANGED <<cur, others, isConnected, reconnectAttempts, reconnectTimers, subscribed,
                   transactions, systemMetrics, filters, filtered, stream, notifications,
                   dismissTimers, sounded, panels, lastFrame, connectionErrorShown>>
    /\ UNCHANGED <<now, location, uncaught, used, storage, restVars, requestLog>>

----------------------------------------------------------------------------
\* RealTimeMonitor: the controls.

\* the options of #riskLevelFilter, #alertTypeFilter and #timeRangeFilter
RiskLevelOptions == {"all", "low", "medium", "high", "critical"}
AlertTypeOptions == {"all", "fraud", "aml", "sanction"}
TimeRangeOptions == {"1h", "4h", "24h"}

\* every selection a user can make
AllFilterChoices ==
    {[field |-> "riskLevel", value |-> v] : v \in RiskLevelOptions}
    \cup {[field |-> "alertType", value |-> v] : v \in AlertTypeOptions}
    \cup {[field |-> "timeRange", value |-> v] : v \in TimeRangeOptions}

\* the selections made in the model of the controls
FilterChoices ==
    {[field |-> "riskLevel", value |-> "high"],
     [field |-> "alertType", value |-> "aml"],
     [field |-> "timeRange", value |-> "24h"]}

\* updateFilteredDisplay: the children of #transactionStream
FilteredStream(filteredTransactions) ==
    IF filteredTransactions = <<>> THEN <<Placeholder>>
    ELSE DisplayAll(<<>>, filteredTransactions)

\* updateFilteredDisplay: the children of #alertList tbody
FilteredAlertList(filteredAlerts) ==
    IF filteredAlerts = <<>> THEN <<NoAlertsRow>>
    ELSE DisplayAllAlerts(<<>>, filteredAlerts)

\* the change listener of a filter control: set the filter, then applyFilters()
FilterChange_Displayed(choice) ==
    /\ location = "page"
    /\ filters' = [filters EXCEPT ![choice.field] = choice.value]
    /\ LET filteredTransactions ==
               SelectSeq(SliceHead(transactions, DisplayCap),
                         LAMBDA t : MatchesFilter(t, filters', now))
           filteredAlerts ==
               SelectSeq(SliceHead(alerts, DisplayCap),
                         LAMBDA a : MatchesAlertFilter(a, filters', now))
       IN /\ filtered' = [given |-> TRUE, transactions |-> filteredTransactions,
                          alerts |-> filteredAlerts]
          /\ stream' = FilteredStream(filteredTransactions)
          /\ alertList' = FilteredAlertList(filteredAlerts)
    /\ lastEvent' = "filter"
    /\ UNCHANGED <<cur, others, isConnected, reconnectAttempts, reconnectTimers, subscribed,
                   transactions, alerts, systemMetrics, charts, notifications, dismissTimers,
                   sounded, panels, loadPc, lastFrame, connectionErrorShown>>
    /\ UNCHANGED <<now, nextId, location, uncaught, storage, restVars, requestLog, responseLog>>
FilterChange(choice) ==
    /\ location = "page"
    /\ filters' = [filters EXCEPT ![choice.field] = choice.value]
    /\ LET filteredTransactions ==
               SelectSeq(transactions, LAMBDA t : MatchesFilter(t, filters', now))
           filteredAlerts ==
               SelectSeq(alerts, LAMBDA a : MatchesAlertFilter(a, filters', now))
       IN /\ filtered' = [given |-> TRUE, transactions |-> filteredTransactions,
                          alerts |-> filteredAlerts]
          /\ stream' = FilteredStream(filteredTransactions)
          /\ alertList' = FilteredAlertList(filteredAlerts)
    /\ lastEvent' = "filter"
    /\ UNCHANGED <<cur, others, isConnected, reconnectAttempts, reconnectTimers, subscribed,
                   transactions, alerts, systemMetrics, charts, notifications, dismissTimers,
                   sounded, panels, loadPc, lastFrame, connectionErrorShown>>
    /\ UNCHANGED <<now, nextId, location, uncaught, storage, restVars, requestLog, responseLog>>

\* a filter change counted against the bound of the model
CountedFilterChange(choice) ==
    /\ used.filterChanges < MaxFilterChanges
    /\ used' = [used EXCEPT !.filterChanges = @ + 1]
    /\ FilterChange(choice)

\* clearTransactionStream(): the click on #clearStream
ClearTransactionStream ==
    /\ location = "page"
    /\ used.clicks < MaxClicks
    /\ used' = [used EXCEPT !.clicks = @ + 1]
    /\ stream' = <<Placeholder>>
    /\ transactions' = <<>>
    /\ alerts' = <<>>
    /\ charts' = [flow |-> UpdateTransactionFlowChart(charts.flow, <<>>, now),
                  volume |-> UpdateVolumeChart(charts.volume, <<>>, NoData),
                  risk |-> UpdateRiskDistributionChart(<<>>),
                  trends |-> UpdateAlertTrendsChart(charts.trends, <<>>, NoData)]
    /\ lastEvent' = "clear"
    /\ UNCHANGED <<cur, others, isConnected, reconnectAttempts, reconnectTimers, subscribed,
                   systemMetrics, filters, filtered, alertList, notifications, dismissTimers,
                   sounded, panels, loadPc, lastFrame, connectionErrorShown>>
    /\ UNCHANGED <<now, nextId, location, uncaught, storage, restVars, requestLog, responseLog>>

\* The alert ids for which an Acknowledge and an Investigate button are in the
\* document: the buttons of the notifications and of the rows of the alert list.
ButtonIds ==
    {notifications[i].id : i \in 1..Len(notifications)}
    \cup {alertList[i].id : i \in {j \in 1..Len(alertList) : alertList[j].kind = "alert"}}

\* document.querySelector(`.alert-notification [data-alert-id="${alertId}"]`):
\* the index of the first notification of that alert, 0 for null
QueryNotification(alertId) ==
    LET hits == {i \in 1..Len(notifications) : notifications[i].id = alertId}
    IN IF hits = {} THEN 0 ELSE CHOOSE i \in hits : \A j \in hits : i <= j

\* acknowledgeAlert(alertId), from the click listener of the document
AcknowledgeClick(alertId) ==
    /\ location = "page"
    /\ used.clicks < MaxClicks
    /\ alertId \in ButtonIds
    /\ used' = [used EXCEPT !.clicks = @ + 1]
    /\ LET k == QueryNotification(alertId)
       IN IF k = 0
          THEN \* null.closest(...)
               /\ uncaught' = uncaught \cup {"TypeError: null.closest"}
               /\ UNCHANGED notifications
          ELSE /\ notifications' = RemoveAt(notifications, k)
               /\ UNCHANGED uncaught
    /\ lastEvent' = "acknowledge"
    /\ UNCHANGED <<cur, others, isConnected, reconnectAttempts, reconnectTimers, subscribed,
                   transactions, alerts, systemMetrics, filters, filtered, charts, stream,
                   alertList, dismissTimers, sounded, panels, loadPc, lastFrame,
                   connectionErrorShown>>
    /\ UNCHANGED <<now, nextId, location, storage, restVars, requestLog, responseLog>>

\* startInvestigation(alertId), from the click listener of the document
InvestigateClick(alertId) ==
    /\ location = "page"
    /\ used.clicks < MaxClicks
    /\ alertId \in ButtonIds
    /\ used' = [used EXCEPT !.clicks = @ + 1]
    /\ LET k == QueryNotification(alertId)
       IN IF k = 0
          THEN \* null.closest(...): the assignment to window.location is not reached
               /\ uncaught' = uncaught \cup {"TypeError: null.closest"}
               /\ UNCHANGED <<notifications, location>>
          ELSE /\ notifications' = RemoveAt(notifications, k)
               /\ location' = "/cases?alert_id"
               /\ UNCHANGED uncaught
    /\ lastEvent' = "investigate"
    /\ UNCHANGED <<cur, others, isConnected, reconnectAttempts, reconnectTimers, subscribed,
                   transactions, alerts, systemMetrics, filters, filtered, charts, stream,
                   alertList, dismissTimers, sounded, panels, loadPc, lastFrame,
                   connectionErrorShown>>
    /\ UNCHANGED <<now, nextId, storage, restVars, requestLog, responseLog>>

\* the callback of showAlertNotification's setTimeout
DismissTimerFire(alertId) ==
    /\ location = "page"
    /\ alertId \in dismissTimers
    /\ dismissTimers' = dismissTimers \ {alertId}
    /\ notifications' = SelectSeq(notifications, LAMBDA n : n.id # alertId)
    /\ lastEvent' = "dismiss"
    /\ UNCHANGED <<cur, others, isConnected, reconnectAttempts, reconnectTimers, subscribed,
                   transactions, alerts, systemMetrics, filters, filtered, charts, stream,
                   alertList, sounded, panels, loadPc, lastFrame, connectionErrorShown>>
    /\ UNCHANGED <<now, nextId, location, uncaught, used, storage, restVars, requestLog, responseLog>>

\* time passes between two tasks
Tick ==
    /\ used.ticks < MaxTicks
    /\ used' = [used EXCEPT !.ticks = @ + 1]
    /\ now' = now + MinuteMs
    /\ lastEvent' = "tick"
    /\ UNCHANGED monitorVars
    /\ UNCHANGED <<nextId, location, uncaught, storage, restVars, requestLog, responseLog>>

----------------------------------------------------------------------------
\* The REST controllers.  One of them runs on the page that is loaded.  A task of
\* the page is a user event, a timer or the arrival of a response; it runs the
\* handler up to its next await.  Each action below ends in RestStep.

OnPage(ctl) == page = ctl /\ location = "page"

\* localStorage does not change while a page is shown
Token == storage.admin_token

\* the modal of a submit handler
ModalOf(handler) ==
    CASE handler = "handleUpdateCase" -> "updateCaseModal"
      [] handler = "handleCloseCase" -> "closeCaseModal"
      [] handler = "handleEscalateCase" -> "escalateCaseModal"

\* modal.show() at the end of show...CaseModal, and modalInstance.hide() in a
\* submit handler, which runs after a 2xx response only
ModalAfter_Always(open, handled, event) ==
    ((open \cup {event}) \cap CaseModals)
        \ {ModalOf(h.call.cont) : h \in {x \in handled : x.call.cont \in CaseHandlers}}
ModalAfter(open, handled, event) ==
    ((open \cup {event}
           \cup {"updateCaseModal" : h \in {x \in handled : /\ x.call.cont = "showUpdateCaseModal"
                                                            /\ IsOk(x.status)}})
        \cap CaseModals)
    \ {ModalOf(h.call.cont) : h \in {x \in handled : /\ x.call.cont \in CaseHandlers
                                                    /\ IsOk(x.status)}}

\* The WebSocket of the dashboard: onopen and onclose set isConnected, and the
\* timer onclose sets calls setupWebSocket() again after 5 s, without a ceiling.
SocketAfter(socket, event) ==
    CASE event = "socket open" -> "open"
      [] event = "socket close" -> "closed"
      [] event = "socket reconnect" -> "connecting"
      [] OTHER -> socket

RestCore(handled, s, newView, event, budget) ==
    /\ modal' = ModalAfter(modal, handled, event)
    /\ dashSocket' = SocketAfter(dashSocket, event)
    /\ used' = IF budget = "none" THEN used ELSE [used EXCEPT ![budget] = @ + 1]
    /\ inflight' = (inflight \ {h.call : h \in handled}) \cup s.calls
    /\ issued' = issued + Cardinality(s.calls)
    /\ requestLog' = requestLog \cup {Request(c.ctl, c.op, Token, c.auth) : c \in s.calls}
    /\ responseLog' = responseLog \cup handled
    /\ location' = IF s.redirect \/ \E h \in handled : h.redirected THEN LoginPage
                   ELSE location
    /\ banners' = (banners \cup s.shown \cup {h.banner : h \in handled}) \ {""}
    /\ view' = newView
    /\ lastEvent' = event
    /\ UNCHANGED <<monitorVars, page, now, nextId, uncaught, storage>>

RestStep(handled, s, newView, event, budget) ==
    /\ RestCore(handled, s, newView, event, budget)
    /\ UNCHANGED <<helper, currentCaseId, openedFor>>

\* the endpoint that follows op in a chain of loads, "" after the last
NextOp(ops, op) ==
    LET i == CHOOSE j \in 1..Len(ops) : ops[j] = op
    IN IF i < Len(ops) THEN ops[i + 1] ELSE ""

\* updateCasesTable(cases): casesTable.clear(), a row per case, draw()
UpdateCasesTable_Guarded(shown, call) == IF shown.seq > call.seq THEN shown ELSE call
UpdateCasesTable(shown, call) == call

\* updateAlertsTable(alerts): clear(), rows.add(...), draw()
UpdateAlertsTable(shown, call) == call

\* the page after the body of an ok response has been rendered
Show(v, call) ==
    [v EXCEPT ![call.op] = IF call.op = "cases/" THEN UpdateCasesTable(@, call)
                           ELSE IF call.op = "alerts/" THEN UpdateAlertsTable(@, call)
                           ELSE call]

ViewAfter(h) == IF h.rendered THEN Show(view, h.call) ELSE view

----------------------------------------------------------------------------
\* CaseManagement

CaseFailText(op) ==
    CASE op = "cases/" -> "Failed to load cases"
      [] op = "cases/metrics" -> "Failed to load case metrics"
      [] op = "cases/distribution" -> "Failed to load case distribution chart"
      [] op = "admin/users" -> "Failed to load users for assignment"
      [] op = "cases/id" -> "Failed to load case details"
      [] op = "PUT cases/id" -> "Failed to update case"
      [] op = "PUT cases/id/close" -> "Failed to close case"
      [] op = "PUT cases/id/escalate" -> "Failed to escalate case"
      [] OTHER -> "Failed to create case"

\* loadCases(queryString) up to its await
LoadCases(token, seq, cont, cycle, query) ==
    LET got == GetAuthHeaders(token)
        calls == Fetch("CaseManagement", "cases/", seq, cont, cycle, query, got.headers)
    IN Started(got.redirect, calls, IF calls = {} THEN {CaseFailText("cases/")} ELSE {})

\* loadCaseMetrics(headers), initCaseDistributionChart(headers) and
\* loadUsersForAssignment(headers) up to their await
LoadWithHeaders(op, seq, cont, cycle, headers) ==
    LET calls == Fetch("CaseManagement", op, seq, cont, cycle, "", headers)
    IN Started(FALSE, calls, IF calls = {} THEN {CaseFailText(op)} ELSE {})

\* the constructor's init() up to its first await
CaseManagementInit(token) ==
    IF GetAuthHeaders(token).headers = NullHeaders
    THEN Started(TRUE, {}, {})
    ELSE LoadCases(token, 1, "init", 1, "")

\* the values of the three filter selects, as applyFilters() encodes them
CaseQueries == {"status=open", "priority=high"}

\* a change of #caseStatusFilter, #casePriorityFilter or #assigneeFilter
ApplyFilters(query) ==
    /\ OnPage("CaseManagement")
    /\ used.filterChanges < MaxQueryChanges
    /\ RestStep({}, LoadCases(Token, issued + 1, "applyFilters", 0, query), view,
                "applyFilters", "filterChanges")

\* submit of #createCaseForm
HandleCreateCase ==
    /\ OnPage("CaseManagement")
    /\ used.requests < MaxUserRequests
    /\ LET got == GetAuthHeaders(Token)
       IN RestStep({}, IF got.headers = NullHeaders THEN Started(TRUE, {}, {})
                       ELSE Started(FALSE, Fetch("CaseManagement", "POST cases/", issued + 1,
                                                 "handleCreateCase", 0, "", got.headers), {}),
                   view, "handleCreateCase", "requests")

\* showCloseCaseModal(caseId) and showEscalateCaseModal(caseId): the click on the
\* button of a row
ShowCaseModal(m, caseId) ==
    /\ OnPage("CaseManagement")
    /\ m \in {"closeCaseModal", "escalateCaseModal"}
    /\ modal = {}    \* the backdrop of an open modal covers the table
    /\ used.clicks < MaxModalClicks
    /\ currentCaseId' = caseId
    /\ openedFor' = [openedFor EXCEPT ![m] = caseId]
    /\ RestCore({}, Nothing, view, m, "clicks")
    /\ UNCHANGED helper

\* viewCaseDetails(caseId) up to its await: fetch(`/api/cases/${caseId}`); the id
\* in the path is kept in the field query of the call
ViewCaseDetails(caseId, seq, cont) ==
    LET got == GetAuthHeaders(Token)
        calls == Fetch("CaseManagement", "cases/id", seq, cont, 0, caseId, got.headers)
    IN Started(got.redirect, calls, IF calls = {} THEN {CaseFailText("cases/id")} ELSE {})

\* showUpdateCaseModal(caseId): viewCaseDetails(caseId) up to its await; the
\* modal is shown when the case has arrived
ShowUpdateCaseModal(caseId) ==
    /\ OnPage("CaseManagement")
    /\ modal = {}
    /\ used.clicks < MaxModalClicks
    /\ RestStep({}, ViewCaseDetails(caseId, issued + 1, "showUpdateCaseModal"),
                view, "showUpdateCaseModal", "clicks")

\* the endpoint and the handler of the form of a modal
PutOp(m) ==
    CASE m = "updateCaseModal" -> "PUT cases/id"
      [] m = "closeCaseModal" -> "PUT cases/id/close"
      [] m = "escalateCaseModal" -> "PUT cases/id/escalate"
HandlerOf(m) ==
    CASE m = "updateCaseModal" -> "handleUpdateCase"
      [] m = "closeCaseModal" -> "handleCloseCase"
      [] m = "escalateCaseModal" -> "handleEscalateCase"

\* handleUpdateCase(e), handleCloseCase(e), handleEscalateCase(e): submit of the
\* form of the open modal, up to the await of the PUT
HandleCaseSubmit(m) ==
    /\ OnPage("CaseManagement")
    /\ m \in modal
    /\ used.requests < MaxSubmits
    /\ LET got == GetAuthHeaders(Token)
           \* fetch(`/api/cases/${this.currentCaseId}/close`)
           calls == Fetch("CaseManagement", PutOp(m), issued + 1, HandlerOf(m), 0,
                          currentCaseId, got.headers)
       IN RestStep({}, Started(got.redirect, calls,
                               IF calls = {} THEN {CaseFailText(PutOp(m))} ELSE {}),
                   view, HandlerOf(m), "requests")

\* what the function awaiting call c does after the response has been handled;
\* the headers init() passes on are those it got from getAuthHeaders() at its start
CaseManagementContinues(c, status) ==
    CASE c.cont = "init" /\ c.op = "cases/" ->
            \* await this.loadCaseMetrics(headers)
            LoadWithHeaders("cases/metrics", issued + 1, "init", c.cycle,
                            GetAuthHeaders(Token).headers)
      [] c.cont = "init" /\ c.op = "cases/metrics" ->
            \* this.initCaseDistributionChart(headers);
            \* await this.loadUsersForAssignment(headers)
            LET d == LoadWithHeaders("cases/distribution", issued + 1,
                                     "initCaseDistributionChart", c.cycle,
                                     GetAuthHeaders(Token).headers)
                u == LoadWithHeaders("admin/users", issued + 1 + Cardinality(d.calls), "init",
                                     c.cycle, GetAuthHeaders(Token).headers)
            IN Started(FALSE, d.calls \cup u.calls, d.shown \cup u.shown)
      [] c.cont = "handleCreateCase" /\ IsOk(status) ->
            \* this.loadCases(); this.loadCaseMetrics();
            LET l == LoadCases(Token, issued + 1, "loadCases", 0, "")
                m == LoadWithHeaders("cases/metrics", issued + 1 + Cardinality(l.calls),
                                     "loadCaseMetrics", 0, UndefinedHeaders)
            IN Started(l.redirect, l.calls \cup m.calls, l.shown \cup m.shown)
      [] c.cont \in CaseHandlers /\ IsOk(status) ->
            \* this.loadCases()
            LoadCases(Token, issued + 1, "loadCases", 0, "")
      [] OTHER -> Nothing

\* the response to a PUT: 401 redirects, any other non-2xx status and a rejected
\* fetch end in the catch block, a 2xx response renders nothing by itself
Submitted(call, status, text) ==
    Handled(call, status, status = 401, FALSE, IF status \in {200, 401} THEN "" ELSE text)

\* a response arrives for one of the fetches of the page
CaseManagementResponse(c, status) ==
    /\ OnPage("CaseManagement")
    /\ c \in inflight
    /\ LET h == IF c.cont \in CaseHandlers THEN Submitted(c, status, CaseFailText(c.op))
                ELSE Checked(c, status, CaseFailText(c.op))
       IN RestCore({h}, CaseManagementContinues(c, status), ViewAfter(h), "response", "none")
    \* displayCaseDetails(caseData): this.currentCaseId = caseData.id; then, in
    \* showUpdateCaseModal, this.currentCaseId = caseId and modal.show()
    /\ currentCaseId' = IF c.op = "cases/id" /\ IsOk(status) THEN c.query ELSE currentCaseId
    /\ openedFor' = IF c.cont = "showUpdateCaseModal" /\ IsOk(status)
                    THEN [openedFor EXCEPT !["updateCaseModal"] = c.query]
                    ELSE openedFor
    /\ UNCHANGED helper

----------------------------------------------------------------------------
\* AMLDashboard, first definition

\* the fetches loadInitialData() awaits in turn
LoadInitialDataOps ==
    <<"dashboard/stats", "dashboard/aml-control-summary", "reports/charts-data">>

DashboardFailText(cont) ==
    CASE cont = "loadInitialData" -> "Failed to load dashboard data"
      [] cont = "loadAlerts" -> "Failed to load alerts"
      [] OTHER -> "Failed to load alert details"

\* loadInitialData() up to its first await on fetch; a cycle is named by the
\* number of its first fetch
LoadInitialData(ctl, ops, token, seq) ==
    LET got == GetAuthHeaders(token)
    IN IF got.headers = NullHeaders THEN Started(TRUE, {}, {})
       ELSE Started(FALSE, Fetch(ctl, ops[1], seq, "loadInitialData", seq, "", got.headers),
                    {})

\* loadAlerts(queryString) up to its await on fetch
LoadAlerts(token, seq, cycle, query) ==
    LET got == GetAuthHeaders(token)
    IN IF got.headers = NullHeaders THEN Started(TRUE, {}, {})
       ELSE Started(FALSE, Fetch("AMLDashboard", "alerts/", seq, "loadAlerts", cycle, query,
                                 got.headers), {})

\* showAlertDetails(alertId) up to its await on fetch:
\* headers: await this.getAuthHeaders()
ShowAlertDetails(token, seq) ==
    LET got == GetAuthHeaders(token)
        calls == Fetch("AMLDashboard", "alerts/id", seq, "showAlertDetails", 0, "",
                       got.headers)
    IN Started(got.redirect, calls,
               IF calls = {} THEN {DashboardFailText("showAlertDetails")} ELSE {})

\* Inside the try block of loadInitialData the statement after a fetch is reached
\* only when the response was ok: a 401 returns, anything else throws to the one
\* catch block of the function.
ChainContinues_PerFetch(h) == ~h.redirected
ChainContinues(h) == h.rendered

\* the values filterAlerts() encodes from the four alert filters
AlertQueries == {"status=open", "alert_type=fraud"}

\* a change of one of the alert filters
FilterAlerts(query) ==
    /\ OnPage("AMLDashboard")
    /\ used.filterChanges < MaxQueryChanges
    /\ RestStep({}, LoadAlerts(Token, issued + 1, 0, query), view, "filterAlerts", "filterChanges")

\* a click on the details button of an alert row
ShowAlertDetailsClick ==
    /\ OnPage("AMLDashboard")
    /\ used.requests < MaxUserRequests
    /\ RestStep({}, ShowAlertDetails(Token, issued + 1), view, "showAlertDetails", "requests")

\* a click on #refreshDashboard
RefreshDashboard ==
    /\ OnPage("AMLDashboard")
    /\ used.requests < MaxUserRequests
    /\ RestStep({}, LoadInitialData("AMLDashboard", LoadInitialDataOps, Token, issued + 1),
                view, "refreshDashboard", "requests")

AMLDashboardContinues(c, h) ==
    IF c.cont = "loadInitialData" /\ ChainContinues(h)
    THEN IF NextOp(LoadInitialDataOps, c.op) # ""
         THEN Started(FALSE, {Call(c.ctl, NextOp(LoadInitialDataOps, c.op), issued + 1,
                                   c.cont, c.cycle, "", c.auth)}, {})
         ELSE \* this.loadAlerts()
              LoadAlerts(Token, issued + 1, c.cycle, "")
    ELSE Nothing

AMLDashboardResponse(c, status) ==
    /\ OnPage("AMLDashboard")
    /\ c \in inflight
    /\ LET h == IF c.cont = "showAlertDetails"
                THEN Unchecked(c, status, DashboardFailText(c.cont))
                ELSE Checked(c, status, DashboardFailText(c.cont))
       IN RestStep({h}, AMLDashboardContinues(c, h), ViewAfter(h), "response", "none")

----------------------------------------------------------------------------
\* AMLDashboard, second definition

LoadInitialDataOps2 == <<"dashboard/stats", "dashboard/aml-control-summary", "alerts/">>

\* showAlertDetails(alertId) up to its await on fetch:
\* headers: this.getAuthHeaders(), the promise of an async function
ShowAlertDetails2(token, seq) ==
    Started(GetAuthHeaders(token).redirect,
            Fetch("AMLDashboard2", "alerts/id", seq, "showAlertDetails", 0, "",
                  PromiseHeaders), {})

ShowAlertDetailsClick2 ==
    /\ OnPage("AMLDashboard2")
    /\ used.requests < MaxUserRequests
    /\ RestStep({}, ShowAlertDetails2(Token, issued + 1), view, "showAlertDetails", "requests")

AMLDashboardContinues2(c, h) ==
    IF c.cont = "loadInitialData" /\ ChainContinues(h)
       /\ NextOp(LoadInitialDataOps2, c.op) # ""
    THEN Started(FALSE, {Call(c.ctl, NextOp(LoadInitialDataOps2, c.op), issued + 1, c.cont,
                              c.cycle, "", c.auth)}, {})
    ELSE Nothing

AMLDashboardResponse2(c, status) ==
    /\ OnPage("AMLDashboard2")
    /\ c \in inflight
    /\ LET h == IF c.cont = "showAlertDetails"
                THEN Unchecked(c, status, DashboardFailText(c.cont))
                ELSE Checked(c, status, DashboardFailText(c.cont))
       IN RestStep({h}, AMLDashboardContinues2(c, h), ViewAfter(h), "response", "none")

----------------------------------------------------------------------------
\* AMLAdminPanel

\* the loads init() awaits in turn
AdminLoads ==
    <<"admin/system-status", "admin/configuration", "admin/users", "admin/ml-models",
      "admin/sanctions/lists">>

AdminFailText(op) ==
    CASE op = "admin/system-status" -> "Failed to load system status"
      [] op = "admin/configuration" -> "Failed to load system configuration"
      [] op = "admin/users" -> "Failed to load users"
      [] op = "admin/ml-models" -> "Failed to load ML models status"
      [] op = "PUT admin/configuration" -> "Failed to update configuration"
      [] OTHER -> "Failed to load sanctions lists"

\* loadSystemStatus() and its four siblings up to their await
AdminLoad(op, token, seq, cont) ==
    LET calls == Fetch("AMLAdminPanel", op, seq, cont, 0, "",
                       AdminGetAuthHeaders(token).headers)
    IN Started(FALSE, calls, IF calls = {} THEN {AdminFailText(op)} ELSE {})

\* init() has gone through its loads and called startSystemMonitoring()
MonitoringStarted ==
    \E h \in responseLog : h.call.cont = "init" /\ h.call.op = AdminLoads[Len(AdminLoads)]

\* the interval of startSystemMonitoring() fires
SystemMonitoringTick ==
    /\ OnPage("AMLAdminPanel")
    /\ MonitoringStarted
    /\ used.requests < MaxUserRequests
    /\ RestStep({}, AdminLoad("admin/system-status", Token, issued + 1,
                              "startSystemMonitoring"), view, "systemMonitoring", "requests")

\* every load has its own try and catch, so init() goes on to the next load
\* whatever the response was
AMLAdminPanelContinues(c) ==
    IF c.cont = "init" /\ NextOp(AdminLoads, c.op) # ""
    THEN AdminLoad(NextOp(AdminLoads, c.op), Token, issued + 1, "init")
    ELSE Nothing

AMLAdminPanelResponse(c, status) ==
    /\ OnPage("AMLAdminPanel")
    /\ c \in inflight
    /\ LET h == IF c.cont = "handleConfigurationSubmit"
                THEN Submitted(c, status, AdminFailText(c.op))
                ELSE Checked(c, status, AdminFailText(c.op))
       IN RestStep({h}, AMLAdminPanelContinues(c), ViewAfter(h), "response", "none")

----------------------------------------------------------------------------
\* AnalystPanel

AnalystLoads == <<"monitoring/transactions/recent", "monitoring/alerts/recent">>

AnalystFailText(op) ==
    IF op = "monitoring/transactions/recent" THEN "Failed to load recent transactions"
    ELSE "Failed to load recent alerts"

\* loadRecentTransactions() and loadRecentAlerts() up to their await
AnalystLoad(op, token, seq) ==
    LET got == GetAuthHeaders(token)
        calls == Fetch("AnalystPanel", op, seq, "init", 0, "", got.headers)
    IN Started(got.redirect, calls, IF calls = {} THEN {AnalystFailText(op)} ELSE {})

\* init() up to its first await on a fetch that went out
AnalystPanelInit(token) ==
    LET t == AnalystLoad(AnalystLoads[1], token, 1)
        a == AnalystLoad(AnalystLoads[2], token, 1)
    IN IF t.calls # {} THEN t
       ELSE Started(t.redirect \/ a.redirect, a.calls, t.shown \cup a.shown)

AnalystPanelContinues(c) ==
    IF NextOp(AnalystLoads, c.op) # ""
    THEN AnalystLoad(NextOp(AnalystLoads, c.op), Token, issued + 1)
    ELSE Nothing

AnalystPanelResponse(c, status) ==
    /\ OnPage("AnalystPanel")
    /\ c \in inflight
    /\ LET h == Checked(c, status, AnalystFailText(c.op))
       IN RestStep({h}, AnalystPanelContinues(c), ViewAfter(h), "response", "none")

----------------------------------------------------------------------------
\* The staff pages: the specifications.  In the first, one of the five pages is
\* loaded, with or without a token in localStorage; the user clicks its buttons and
\* the server answers the fetches in any order and with any status.

Controllers ==
    {"CaseManagement", "AMLDashboard", "AMLDashboard2", "AMLAdminPanel", "AnalystPanel"}

Dashboards == {"AMLDashboard", "AMLDashboard2"}

\* init(): await this.setupWebSocket() comes first on a dashboard
FirstSocket(ctl) == IF ctl \in Dashboards THEN "connecting" ELSE "none"

\* the constructor of the page's controller, up to the first await on a fetch
PageLoad(ctl, token) ==
    CASE ctl = "CaseManagement" -> CaseManagementInit(token)
      [] ctl = "AMLDashboard" -> LoadInitialData(ctl, LoadInitialDataOps, token, 1)
      [] ctl = "AMLDashboard2" -> LoadInitialData(ctl, LoadInitialDataOps2, token, 1)
      [] ctl = "AMLAdminPanel" -> AdminLoad(AdminLoads[1], token, 1, "init")
      [] OTHER -> AnalystPanelInit(token)

InitRest ==
    /\ InitMonitor
    /\ now = 100000000
    /\ nextId = 1
    /\ uncaught = {}
    /\ lastEvent = "init"
    /\ used = NoUse
    /\ responseLog = {}
    /\ view = NoView
    /\ helper = NoHelper
    /\ modal = {}
    /\ \E ctl \in Controllers : \E token \in {"tok", "null"} :
          /\ page = ctl
          /\ dashSocket = FirstSocket(ctl)
          /\ currentCaseId = NoCase
          /\ openedFor = [m \in CaseModals |-> NoCase]
          /\ storage = [admin_token |-> token, staff_token |-> "null",
                        customer_token |-> "null"]
          /\ inflight = PageLoad(ctl, token).calls
          /\ issued = Cardinality(PageLoad(ctl, token).calls)
          /\ requestLog = {Request(c.ctl, c.op, token, c.auth) :
                             c \in PageLoad(ctl, token).calls}
          /\ location = IF PageLoad(ctl, token).redirect THEN LoginPage ELSE "page"
          /\ banners = PageLoad(ctl, token).shown

NextRest ==
    \/ HandleCreateCase
    \/ \E c \in inflight : \E status \in RestStatuses : CaseManagementResponse(c, status)
    \/ ShowAlertDetailsClick
    \/ RefreshDashboard
    \/ \E c \in inflight : \E status \in RestStatuses : AMLDashboardResponse(c, status)
    \/ ShowAlertDetailsClick2
    \/ \E c \in inflight : \E status \in RestStatuses : AMLDashboardResponse2(c, status)
    \/ SystemMonitoringTick
    \/ \E c \in inflight : \E status \in RestStatuses : AMLAdminPanelResponse(c, status)
    \/ \E c \in inflight : \E status \in RestStatuses : AnalystPanelResponse(c, status)

SpecRest == InitRest /\ [][NextRest]_vars

\* The filters of the case list and of the alert list.  The page has gone through
\* its loads with every response ok; the user changes the filters and the server
\* answers the fetches in any order and with any status.

CaseManagementLoaded ==
    {Call("CaseManagement", "cases/", 1, "init", 1, "", Bearer("tok")),
     Call("CaseManagement", "cases/metrics", 2, "init", 1, "", Bearer("tok")),
     Call("CaseManagement", "cases/distribution", 3, "initCaseDistributionChart", 1, "",
          Bearer("tok")),
     Call("CaseManagement", "admin/users", 4, "init", 1, "", Bearer("tok"))}

AMLDashboardLoaded ==
    {Call("AMLDashboard", "dashboard/stats", 1, "loadInitialData", 1, "", Bearer("tok")),
     Call("AMLDashboard", "dashboard/aml-control-summary", 2, "loadInitialData", 1, "",
          Bearer("tok")),
     Call("AMLDashboard", "reports/charts-data", 3, "loadInitialData", 1, "", Bearer("tok")),
     Call("AMLDashboard", "alerts/", 4, "loadAlerts", 1, "", Bearer("tok"))}

InitQueries ==
    /\ InitMonitor
    /\ now = 100000000
    /\ nextId = 1
    /\ uncaught = {}
    /\ lastEvent = "init"
    /\ used = NoUse
    /\ location = "page"
    /\ banners = {}
    /\ helper = NoHelper
    /\ modal = {}
    /\ inflight = {}
    /\ storage = [admin_token |-> "tok", staff_token |-> "null", customer_token |-> "null"]
    /\ \E loaded \in {CaseManagementLoaded, AMLDashboardLoaded} :
          /\ page \in {c.ctl : c \in loaded}
          /\ dashSocket = FirstSocket(page)
          /\ currentCaseId = NoCase
          /\ openedFor = [m \in CaseModals |-> NoCase]
          /\ issued = Cardinality(loaded)
          /\ requestLog = {Request(c.ctl, c.op, "tok", c.auth) : c \in loaded}
          /\ responseLog = {Checked(c, 200, "") : c \in loaded}
          /\ view = [k \in ViewKeys |-> IF \E c \in loaded : c.op = k
                                        THEN CHOOSE c \in loaded : c.op = k
                                        ELSE NoResult]

NextQueries ==
    \/ \E query \in CaseQueries : ApplyFilters(query)
    \/ \E c \in inflight : \E status \in RestStatuses : CaseManagementResponse(c, status)
    \/ \E query \in AlertQueries : FilterAlerts(query)
    \/ \E c \in inflight : \E status \in RestStatuses : AMLDashboardResponse(c, status)

SpecQueries == InitQueries /\ [][NextQueries]_vars

----------------------------------------------------------------------------
\* RealTimeMonitor: the specifications.

\* at most MaxFrames frames arrive
CountedSocketMessage(own, frame) ==
    /\ used.frames < MaxFrames
    /\ SocketMessage(own, frame)

Init ==
    /\ InitMonitor
    /\ InitShared
    /\ storage = [admin_token |-> "tok", staff_token |-> "null", customer_token |-> "null"]
    /\ requestLog = {FirstLoadRequest(storage.admin_token)}

\* The data path: the socket opens and stays open, the server streams frames and
\* answers the two fetches of loadInitialData.
Next ==
    \/ SocketOpen(TRUE)
    \/ \E frame \in Frames : CountedSocketMessage(TRUE, frame)
    \/ \E status \in RestStatuses : \E n \in TxLoadSizes : LoadTransactionsResponse(status, n)
    \/ \E status \in RestStatuses : \E n \in AlertLoadSizes : LoadAlertsResponse(status, n)

Spec == Init /\ [][Next]_vars

\* frames that carry no transaction, alert or prediction
ControlFrames ==
    {f \in Frames : f.type \notin {"transaction_stream", "alert_generated", "ml_prediction"}}

\* The connection: sockets open, fail and close, the user pauses and resumes, the
\* reconnect timers fire; the fetches of loadInitialData stay unanswered.
NextConnection ==
    \/ \E own \in BOOLEAN : SocketOpen(own)
    \/ \E own \in BOOLEAN : SocketClose(own)
    \/ SocketError
    \/ ReconnectTimerFire
    \/ ToggleMonitoring
    \/ \E own \in BOOLEAN : \E frame \in ControlFrames : CountedSocketMessage(own, frame)

SpecConnection == Init /\ [][NextConnection]_vars

\* The controls: a short stream of alerts, then filter changes, clears, clicks on
\* the alert buttons, the removal timers of the notifications, and time passing.
NextControls ==
    \/ SocketOpen(TRUE)
    \/ \E frame \in {f \in Frames : f.type = "alert_generated"} : CountedSocketMessage(TRUE, frame)
    \/ \E n \in {0} : LoadTransactionsResponse(200, n)
    \/ \E n \in {0} : LoadAlertsResponse(200, n)
    \/ \E choice \in FilterChoices : CountedFilterChange(choice)
    \/ ClearTransactionStream
    \/ \E id \in ButtonIds : AcknowledgeClick(id)
    \/ \E id \in ButtonIds : InvestigateClick(id)
    \/ \E id \in dismissTimers : DismissTimerFire(id)
    \/ Tick

SpecControls == Init /\ [][NextControls]_vars

----------------------------------------------------------------------------
\* RealTimeMonitor: the filters on their own.  The page has finished
\* loadInitialData with one transaction and one alert of any of the kinds below,
\* and the user works the three filter controls freely.

FilterTxTemplates ==
    { [risk |-> 30, age |-> 0, amount |-> 100],
      [risk |-> 50, age |-> 3600000, amount |-> 100],
      [risk |-> 75, age |-> 3600001, amount |-> 100],
      [risk |-> 95, age |-> 14400000, amount |-> 100],
      [risk |-> 75, age |-> 86400001, amount |-> 100] }

FilterAlertTemplates ==
    { [risk |-> 30, age |-> 0, type |-> FRAUD_TYPE],
      [risk |-> 50, age |-> 3600000, type |-> AML_TYPE],
      [risk |-> 75, age |-> 3540000, type |-> SANCTIONS_TYPE],
      [risk |-> 95, age |-> 14400001, type |-> AML_TYPE],
      [risk |-> 95, age |-> 0, type |-> ML_TYPE] }

InitFilter ==
    /\ InitShared
    /\ storage = [admin_token |-> "tok", staff_token |-> "null", customer_token |-> "null"]
    /\ requestLog = {FirstLoadRequest(storage.admin_token),
                     Request("RealTimeMonitor", "alerts/recent", storage.admin_token,
                             NoAuthorization)}
    /\ cur = "connecting"
    /\ others = NoSockets
    /\ isConnected = FALSE
    /\ reconnectAttempts = 0
    /\ reconnectTimers = <<>>
    /\ subscribed = {}
    /\ \E tpl \in FilterTxTemplates : transactions = <<Transaction(1, tpl, now)>>
    /\ \E tpl \in FilterAlertTemplates : alerts = <<Alert(2, tpl, now)>>
    /\ systemMetrics = <<>>    \* {}
    /\ filters = [riskLevel |-> "all", alertType |-> "all", timeRange |-> "1h"]
    /\ filtered = [given |-> FALSE, transactions |-> <<>>, alerts |-> <<>>]
    /\ charts = [risk |-> UpdateRiskDistributionChart(alerts),
                 trends |-> UpdateAlertTrendsChart(InitialCharts.trends, alerts, Given(alerts)),
                 volume |-> UpdateVolumeChart(InitialCharts.volume, transactions,
                                              Given(transactions)),
                 flow |-> UpdateTransactionFlowChart(InitialCharts.flow, transactions, now)]
    /\ stream = <<Placeholder>>
    /\ alertList = DisplayAllAlerts(<<NoAlertsRow>>, alerts)
    /\ notifications = <<>>
    /\ dismissTimers = {}
    /\ sounded = {}
    /\ panels = [connectionStatus |-> "none", mlMetrics |-> "none",
                 systemMetrics |-> "none", pauseBtn |-> "Pause"]
    /\ loadPc = "done"
    /\ lastFrame = NoFrame
    /\ connectionErrorShown = FALSE

NextFilter ==
    \/ \E choice \in AllFilterChoices : FilterChange(choice) /\ UNCHANGED used
    \/ Tick

SpecFilter == InitFilter /\ [][NextFilter]_vars

----------------------------------------------------------------------------
\* Properties of RealTimeMonitor.

\* a step that is the onclose handler
IsCloseStep == lastEvent' \in {"close", "close at ceiling"}

\* C1: every close event that finds reconnectAttempts below maxReconnectAttempts
\* adds one to the counter and schedules exactly one setupWebSocket call after
\* reconnectInterval; a close event that finds the counter at the ceiling schedules
\* nothing and reports a terminal connection error, after which no automatic
\* reconnect runs.
C1_ReconnectLoop ==
    [][ /\ (IsCloseStep /\ reconnectAttempts < maxReconnectAttempts)
            => /\ reconnectAttempts' = reconnectAttempts + 1
               /\ reconnectTimers' = Append(reconnectTimers, reconnectInterval)
        /\ (IsCloseStep /\ reconnectAttempts >= maxReconnectAttempts)
            => /\ reconnectAttempts' = reconnectAttempts
               /\ reconnectTimers' = reconnectTimers
               /\ connectionErrorShown'
               /\ uncaught' = uncaught
        /\ connectionErrorShown => lastEvent' # "reconnect"
      ]_vars

\* C2: the transactions buffer never holds more than 100 items and the alerts
\* buffer never more than 50.
C2_BuffersCapped ==
    /\ Len(transactions) <= TransactionCap
    /\ Len(alerts) <= AlertCap

\* the first n elements of a sequence
FirstN(s, n) == [i \in 1..(IF Len(s) < n THEN Len(s) ELSE n) |-> s[i]]

\* a sequence back to front
Reversed(s) == [i \in 1..Len(s) |-> s[Len(s) + 1 - i]]

\* C3: ingesting an alert x leaves the first 50 elements of x followed by the old
\* alerts buffer, and ingesting a transaction_stream batch t1..tn leaves the first
\* 100 elements of tn..t1 followed by the old transactions buffer: the newest item
\* is at index 0, the old items keep their order, and only the tail is dropped.
C3_RollingBuffer ==
    [][ (lastEvent' = "message" /\ lastFrame'.json)
        => /\ lastFrame'.type = "transaction_stream"
                => transactions' =
                      FirstN(Reversed(lastFrame'.data) \o transactions, TransactionCap)
           /\ lastFrame'.type = "alert_generated"
                => alerts' = FirstN(<<lastFrame'.data>> \o alerts, AlertCap)
      ]_vars

\* C3 witness: a batch of two was ingested into a buffer that was full, so the
\* tail was dropped and the batch is at the head in reverse order.
C3_Evicted ==
    /\ lastEvent = "message"
    /\ lastFrame.json
    /\ lastFrame.type = "transaction_stream"
    /\ Len(lastFrame.data) = 2
    /\ Len(transactions) = TransactionCap
    /\ transactions[1] = lastFrame.data[2]
    /\ transactions[2] = lastFrame.data[1]
    /\ responseLog # {}

----------------------------------------------------------------------------
\* Properties of the filters.

\* (1) the risk-level filter is 'all' or names the level of the score
RiskLevelHolds(score, f) == f.riskLevel = "all" \/ GetRiskLevel(score) = f.riskLevel

\* the substring a selected alert type stands for
TypeSubstring(alertType) ==
    CASE alertType = "fraud" -> <<"F", "R", "A", "U", "D">>
      [] alertType = "aml" -> <<"A", "M", "L">>
      [] alertType = "sanction" -> <<"S", "A", "N", "C", "T", "I", "O", "N", "S">>

\* (2) the alert-type filter is 'all' or the alert_type contains its substring
AlertTypeHolds(type, f) ==
    f.alertType = "all" \/ Includes(type, TypeSubstring(f.alertType))

\* the length of the selected window
WindowMs(timeRange) ==
    CASE timeRange = "1h" -> 60 * MinuteMs
      [] timeRange = "4h" -> 240 * MinuteMs
      [] timeRange = "24h" -> 1440 * MinuteMs

\* (3) the age of the item does not exceed the selected window
WindowHolds(timestamp, f, at) == at - timestamp <= WindowMs(f.timeRange)

\* the items applyFilters handed to the display
Visible(item, shown) == \E i \in 1..Len(shown) : shown[i] = item

\* C4 as written: after a filter change every transaction and every alert of the
\* buffers is visible exactly if all three predicates hold, a transaction having
\* no alert_type to contain anything.
C4_ThreePredicates ==
    lastEvent = "filter" =>
        /\ \A i \in 1..Len(transactions) :
              Visible(transactions[i], filtered.transactions)
              <=> /\ RiskLevelHolds(transactions[i].risk_score, filters)
                  /\ AlertTypeHolds(NoAlertType, filters)
                  /\ WindowHolds(transactions[i].timestamp, filters, now)
        /\ \A i \in 1..Len(alerts) :
              Visible(alerts[i], filtered.alerts)
              <=> /\ RiskLevelHolds(alerts[i].risk_score, filters)
                  /\ AlertTypeHolds(alerts[i].alert_type, filters)
                  /\ WindowHolds(alerts[i].timestamp, filters, now)

\* C4 amended: after a filter change an alert is visible exactly if all three
\* predicates hold, and a transaction exactly if the risk-level and the time-window
\* predicates hold, whatever the alert-type filter.
C4_FilterPredicates ==
    lastEvent = "filter" =>
        /\ filtered.given
        /\ \A i \in 1..Len(transactions) :
              Visible(transactions[i], filtered.transactions)
              <=> /\ RiskLevelHolds(transactions[i].risk_score, filters)
                  /\ WindowHolds(transactions[i].timestamp, filters, now)
        /\ \A i \in 1..Len(alerts) :
              Visible(alerts[i], filtered.alerts)
              <=> /\ RiskLevelHolds(alerts[i].risk_score, filters)
                  /\ AlertTypeHolds(alerts[i].alert_type, filters)
                  /\ WindowHolds(alerts[i].timestamp, filters, now)

\* C4 witness: with an alert type selected, a transaction is visible while the
\* alert, exactly as old as the window is long, is visible too.
C4_TypeSelected ==
    /\ lastEvent = "filter"
    /\ filters.alertType = "aml"
    /\ filters.riskLevel = "medium"
    /\ filtered.transactions # <<>>
    /\ filtered.alerts # <<>>
    /\ now - alerts[1].timestamp = WindowMs(filters.timeRange)

----------------------------------------------------------------------------
\* C5: every REST response with status 401, in every controller and operation,
\* sets the page location to the login page, and its body is not rendered.
C5_Every401Redirects ==
    \A h \in responseLog :
        h.status = 401 => h.redirected /\ ~h.rendered /\ location = LoginPage

----------------------------------------------------------------------------
\* One refresh cycle of the dashboard: the fetches loadInitialData makes, and in
\* the first definition the loadAlerts it ends with.

CycleOps(ctl) ==
    IF ctl = "AMLDashboard" THEN LoadInitialDataOps \o <<"alerts/">> ELSE LoadInitialDataOps2

Position(ops, op) == CHOOSE j \in 1..Len(ops) : ops[j] = op

IssuedInCycle(ctl, cycle, op) ==
    \E c \in inflight \cup {h.call : h \in responseLog} :
        c.ctl = ctl /\ c.cycle = cycle /\ c.op = op

RenderedInCycle(ctl, cycle, op) ==
    \E h \in responseLog :
        h.call.ctl = ctl /\ h.call.cycle = cycle /\ h.call.op = op /\ h.rendered

\* the non-2xx responses, 401 apart, to a fetch of a refresh cycle
CycleFailures ==
    {h \in responseLog : /\ h.call.ctl \in {"AMLDashboard", "AMLDashboard2"}
                         /\ h.call.cycle > 0
                         /\ h.status = 500}

\* C6 as stated: a non-2xx response to one fetch of a refresh cycle shows an error
\* banner and aborts only that fetch: every other fetch of the cycle is issued.
C6_FailureAbortsOneFetch ==
    \A h \in CycleFailures :
        /\ h.banner \in banners
        /\ \A j \in 1..Len(CycleOps(h.call.ctl)) :
              IssuedInCycle(h.call.ctl, h.call.cycle, CycleOps(h.call.ctl)[j])

\* C6 amended: a non-2xx response to one fetch of a refresh cycle shows the error
\* banner of the function that awaited it and ends the cycle: the fetches before
\* it have been rendered, the fetches after it are never issued.
C6_FailureAbortsCycle ==
    \A h \in CycleFailures :
        LET ops == CycleOps(h.call.ctl)
            i == Position(ops, h.call.op)
        IN /\ h.banner = DashboardFailText(h.call.cont)
           /\ h.banner \in banners
           /\ \A j \in 1..(i - 1) : RenderedInCycle(h.call.ctl, h.call.cycle, ops[j])
           /\ \A j \in (i + 1)..Len(ops) : ~IssuedInCycle(h.call.ctl, h.call.cycle, ops[j])

\* C6 witness: the AML control summary of a cycle failed after the statistics of
\* the same cycle were rendered, and nothing of the page is in flight any more.
C6_SummaryFailed ==
    /\ inflight = {}
    /\ \E h \in CycleFailures :
          /\ h.call.op = "dashboard/aml-control-summary"
          /\ view["dashboard/stats"].cycle = h.call.cycle

----------------------------------------------------------------------------
\* C7: no event handler ends in an uncaught exception, whatever the frame, the
\* close event or the click that it handles.
C7_NoUncaughtException == uncaught = {}

----------------------------------------------------------------------------
----------------------------------------------------------------------------
\* C9: with no token in localStorage the page goes to the login page and no REST
\* request is issued.
C9_NoTokenNoRequest ==
    Token = "null" => requestLog = {} /\ location = LoginPage

----------------------------------------------------------------------------
\* C10: every REST request issued while a token is stored carries the header
\* Authorization: Bearer <token> with the stored token.
C10_BearerOnEveryRequest ==
    \A r \in requestLog : r.stored # "null" => r.auth = Bearer(r.stored)

----------------------------------------------------------------------------
\* C11: every open event of a socket sends exactly one subscribe message on the
\* connection that has just opened, and no subscribe message is handed to a
\* connection that is not open.
C11_SubscribeOnOpen ==
    [][lastEvent' = "open" =>
          /\ cur = "connecting"
          /\ cur' = "open"
          /\ [own |-> TRUE, state |-> "open"] \in subscribed'
          /\ uncaught' = uncaught
          /\ \A s \in subscribed' : s.state = "open"]_vars

----------------------------------------------------------------------------
\* C12: a message whose type is none of the five types of the switch of
\* handleRealtimeMessage leaves the transactions buffer, the alerts buffer,
\* systemMetrics, the filters and every chart unchanged.
C12_UnknownTypeDropped ==
    [][(/\ lastEvent' = "message"
        /\ lastFrame'.json
        /\ lastFrame'.type \notin {"transaction_stream", "alert_generated", "ml_prediction",
                                   "system_metrics", "risk_score_update"})
       => UNCHANGED <<transactions, alerts, systemMetrics, filters, charts>>]_vars

\* C12 witness: a frame of an unknown type has been handled while both buffers
\* and the volume chart held data.
C12_HeartbeatHandled ==
    /\ lastEvent = "message"
    /\ lastFrame.type = "heartbeat"
    /\ transactions # <<>>
    /\ alerts # <<>>
    /\ charts.volume.labels # <<>>

----------------------------------------------------------------------------
\* C13: reconnectAttempts stays between 0 and maxReconnectAttempts, and it is 0
\* right after every open event.
C13_AttemptsBounded ==
    /\ reconnectAttempts \in 0..maxReconnectAttempts
    /\ lastEvent = "open" => reconnectAttempts = 0

\* C13 witness: a socket has opened after the ceiling had been hit by a close.
C13_OpenAfterCeiling ==
    /\ lastEvent = "open"
    /\ "TypeError: this.showConnectionError is not a function" \in uncaught

----------------------------------------------------------------------------
\* The per-minute aggregation of a buffer, restricted to its most recent
\* ChartPoints buckets: one point per distinct minute, in ascending order.

BucketsOf(data) == SliceTail(MinuteKeys(data), ChartPoints)

VolumeOf(txs) ==
    [labels |-> BucketsOf(txs),
     d0 |-> [i \in 1..Len(BucketsOf(txs)) |-> SumAmounts(txs, BucketsOf(txs)[i])]]

TrendsOf(als) ==
    [labels |-> BucketsOf(als),
     d0 |-> [i \in 1..Len(BucketsOf(als)) |-> CountIn(als, BucketsOf(als)[i])],
     d1 |-> [i \in 1..Len(BucketsOf(als)) |-> CountHighIn(als, BucketsOf(als)[i])]]

\* C14: after the chart refresh of a streamed event, the volume chart and the
\* alert-trends chart show the per-minute aggregation of the current buffer, one
\* point per distinct minute, and no bucket twice.
C14_ChartsShowBuffer ==
    /\ (lastEvent = "message" /\ lastFrame.type = "transaction_stream")
          => charts.volume = VolumeOf(transactions)
    /\ (lastEvent = "message" /\ lastFrame.type = "alert_generated")
          => charts.trends = TrendsOf(alerts)

----------------------------------------------------------------------------
\* The charts over a long stream: both fetches of loadInitialData answer with more
\* than the buffers hold, and more frames arrive than a chart keeps points.

MaxChartFrames == 42

\* the server sends one transaction, then the alert it raised, and so on
ChartFrames ==
    IF used.frames % 2 = 0
    THEN {f \in Frames : /\ f.type = "transaction_stream"
                         /\ Len(f.data) = 1
                         /\ f.data[1].risk_score = 85}
    ELSE {f \in Frames : /\ f.type = "alert_generated"
                         /\ f.data.risk_score = 85}

NextCharts ==
    \/ SocketOpen(TRUE)
    \/ \E frame \in ChartFrames : used.frames < MaxChartFrames /\ SocketMessage(TRUE, frame)
    \/ LoadTransactionsResponse(200, TransactionCap + 1)
    \/ LoadAlertsResponse(200, AlertCap + 1)

SpecCharts == Init /\ [][NextCharts]_vars

\* C15: after every update of the transaction-flow chart, the transaction-volume
\* chart and the alert-trends chart, the chart holds at most 20 data points, and
\* its label list and each of its datasets have the same length.
C15_ChartsBounded ==
    /\ \A c \in {charts.flow, charts.trends} :
          /\ Len(c.labels) <= ChartPoints
          /\ Len(c.d0) = Len(c.labels)
          /\ Len(c.d1) = Len(c.labels)
    /\ Len(charts.volume.labels) <= ChartPoints
    /\ Len(charts.volume.d0) = Len(charts.volume.labels)

\* more frames than a chart keeps points have arrived after both loads, and each of
\* the three charts is full
C15_ChartsTruncated ==
    /\ lastEvent = "message"
    /\ used.frames > ChartPoints
    /\ Len(transactions) = TransactionCap
    /\ Len(alerts) = AlertCap
    /\ Len(charts.flow.labels) = ChartPoints
    /\ Len(charts.volume.labels) = ChartPoints
    /\ Len(charts.trends.labels) = ChartPoints

----------------------------------------------------------------------------
\* The displays over full buffers: both fetches of loadInitialData answer with
\* more than the buffers hold, a few frames arrive, the user changes a filter
\* and clears the stream.

DisplayFrames ==
    {f \in Frames :
        \/ f.type = "transaction_stream" /\ Len(f.data) = 1 /\ f.data[1].risk_score = 85
        \/ f.type = "alert_generated" /\ f.data.risk_score = 85}

NextDisplay ==
    \/ SocketOpen(TRUE)
    \/ \E frame \in DisplayFrames : CountedSocketMessage(TRUE, frame)
    \/ LoadTransactionsResponse(200, TransactionCap + 1)
    \/ LoadAlertsResponse(200, AlertCap + 1)
    \/ \E choice \in AllFilterChoices : CountedFilterChange(choice)
    \/ ClearTransactionStream

SpecDisplay == Init /\ [][NextDisplay]_vars

\* C16: after any display update (a streamed transaction, a new alert, the
\* initial load, a filter change or a clear) the transaction stream container
\* holds at most 10 entries and the alert list holds at most 10 rows.
C16_DisplaysBounded ==
    /\ Len(stream) <= DisplayCap
    /\ Len(alertList) <= DisplayCap

\* a filter change over full buffers: more than 10 transactions and more than 10
\* alerts match, and both displays are full
C16_FullDisplays ==
    /\ lastEvent = "filter"
    /\ Len(filtered.transactions) > DisplayCap
    /\ Len(filtered.alerts) > DisplayCap
    /\ Len(stream) = DisplayCap
    /\ Len(alertList) = DisplayCap

\* the positions of the matching items of a buffer
TxHits(txs, f, at) == {i \in 1..Len(txs) : MatchesFilter(txs[i], f, at)}
AlertHits(als, f, at) == {i \in 1..Len(als) : MatchesAlertFilter(als[i], f, at)}

\* out holds the items of buffer at the positions hits, in the order of the buffer
IsSelection(out, buffer, hits) ==
    /\ Len(out) = Cardinality(hits)
    /\ \A i \in hits : out[Cardinality({j \in hits : j <= i})] = buffer[i]

\* C17: on every change of the risk-level, alert-type or time-range filter,
\* applyFilters evaluates the filter over every item of the transactions buffer
\* and of the alerts buffer, hands to the display exactly the subsequences of
\* matching items in buffer order, and leaves both buffers unmodified.
C17_FilterWholeBuffers ==
    [][lastEvent' = "filter" =>
          /\ filtered'.given
          /\ IsSelection(filtered'.transactions, transactions,
                         TxHits(transactions, filters', now))
          /\ IsSelection(filtered'.alerts, alerts, AlertHits(alerts, filters', now))
          /\ transactions' = transactions
          /\ alerts' = alerts]_vars

\* a filter change over full buffers that keeps some and drops some of the items
\* of each, with matching items behind the ones on display
C17_FilteredFullBuffers ==
    /\ lastEvent = "filter"
    /\ Len(transactions) = TransactionCap
    /\ Len(alerts) = AlertCap
    /\ Len(filtered.transactions) \in (DisplayCap + 1)..(TransactionCap - 1)
    /\ Len(filtered.alerts) \in (DisplayCap + 1)..(AlertCap - 1)

----------------------------------------------------------------------------
\* The pure helpers of the controllers.  Times are milliseconds, risk scores are
\* hundredths.

HourMs == 3600000

\* CaseManagement.calculateSLAStatus(targetDate): the class of the badge.  now is
\* read from the clock; diffHours = (target - now) / (1000 * 60 * 60)
CalculateSLAStatus_Inclusive(targetDate, at) ==
    IF ~targetDate.given THEN "unknown"
    ELSE IF targetDate.value - at < 0 THEN "overdue"
    ELSE IF targetDate.value - at <= 24 * HourMs THEN "due-soon"
    ELSE "on-track"
CalculateSLAStatus(targetDate, at) ==
    IF ~targetDate.given THEN "unknown"
    ELSE IF targetDate.value - at < 0 THEN "overdue"
    ELSE IF targetDate.value - at < 24 * HourMs THEN "due-soon"
    ELSE "on-track"

\* AMLBase.getRiskLevel(score)
AMLBaseGetRiskLevel(score) ==
    IF score >= 90 THEN "critical"
    ELSE IF score >= 70 THEN "high"
    ELSE IF score >= 40 THEN "medium"
    ELSE "low"

\* this.config.riskThresholds of AMLDashboard
riskThresholds == [low |-> 30, medium |-> 60, high |-> 80, critical |-> 90]

\* AMLDashboard.getRiskLevel(score)
AMLDashboardGetRiskLevel_Exclusive(score) ==
    IF score > riskThresholds.critical THEN "critical"
    ELSE IF score > riskThresholds.high THEN "high"
    ELSE IF score > riskThresholds.medium THEN "medium"
    ELSE "low"
AMLDashboardGetRiskLevel(score) ==
    IF score >= riskThresholds.critical THEN "critical"
    ELSE IF score >= riskThresholds.high THEN "high"
    ELSE IF score >= riskThresholds.medium THEN "medium"
    ELSE "low"

\* The target dates of the cases a response carries: none, and dates around now,
\* around 24 hours ahead and further away, to the millisecond.
MaxSkewMs == 2
TargetDates ==
    {NoDate} \cup
    {DateAt(now + h * HourMs + e) : h \in {-24, -1, 0, 1, 23, 24, 25, 48},
                                    e \in -MaxSkewMs..MaxSkewMs}

\* every score in [0, 1] at a resolution of 0.01
Scores == 0..100

\* updateCasesTable renders a case: calculateSLAStatus(caseData.target_completion_date)
CalculateSLAStatusCall(targetDate) ==
    /\ helper' = [fn |-> "calculateSLAStatus", args |-> targetDate, at |-> now,
                  returned |-> <<CalculateSLAStatus(targetDate, now)>>]
    /\ lastEvent' = "helper"
    /\ UNCHANGED monitorVars
    /\ UNCHANGED <<now, nextId, location, uncaught, used, storage, requestLog, responseLog>>
    /\ UNCHANGED <<page, inflight, issued, view, banners, modal, dashSocket, currentCaseId,
                   openedFor>>

\* a score is rendered by the monitor, by a page that uses AMLBase, and by the
\* dashboard: the level each getRiskLevel returns
GetRiskLevelCall(score) ==
    /\ helper' = [fn |-> "getRiskLevel", args |-> DateAt(score), at |-> now,
                  returned |-> <<GetRiskLevel(score), AMLBaseGetRiskLevel(score),
                                 AMLDashboardGetRiskLevel(score)>>]
    /\ lastEvent' = "helper"
    /\ UNCHANGED monitorVars
    /\ UNCHANGED <<now, nextId, location, uncaught, used, storage, requestLog, responseLog>>
    /\ UNCHANGED <<page, inflight, issued, view, banners, modal, dashSocket, currentCaseId,
                   openedFor>>

NextHelpers ==
    \/ \E targetDate \in TargetDates : CalculateSLAStatusCall(targetDate)
    \/ \E score \in Scores : GetRiskLevelCall(score)
    \/ Tick /\ UNCHANGED helper

SpecHelpers == Init /\ [][NextHelpers]_vars

\* C18 as stated: calculateSLAStatus depends only on (target_completion_date, now)
\* and returns one of overdue, due-soon, on-track: overdue iff the target is
\* before now, due-soon iff the target is at or after now and less than 24 hours
\* ahead, on-track iff the target is 24 hours or more ahead.
C18_SLAThreeWay ==
    helper.fn = "calculateSLAStatus" =>
        LET ahead == helper.args.value - helper.at
            class == helper.returned[1]
        IN /\ class \in {"overdue", "due-soon", "on-track"}
           /\ class = "overdue" <=> ahead < 0
           /\ class = "due-soon" <=> (ahead >= 0 /\ ahead < 24 * HourMs)
           /\ class = "on-track" <=> ahead >= 24 * HourMs

\* C18, amended: for a case that has a target_completion_date the class is
\* overdue iff the target is before now, due-soon iff it is at or after now and
\* less than 24 hours ahead, on-track iff it is 24 hours or more ahead; for a case
\* without a target_completion_date the class is unknown, whatever now is.
C18_SLAOfTarget ==
    helper.fn = "calculateSLAStatus" =>
        LET ahead == helper.args.value - helper.at
            class == helper.returned[1]
        IN IF helper.args.given
           THEN /\ class \in {"overdue", "due-soon", "on-track"}
                /\ class = "overdue" <=> ahead < 0
                /\ class = "due-soon" <=> (ahead >= 0 /\ ahead < 24 * HourMs)
                /\ class = "on-track" <=> ahead >= 24 * HourMs
           ELSE class = "unknown"

\* a target exactly 24 hours ahead has been classified, after the clock moved
C18_ExactlyOneDayAhead ==
    /\ helper.fn = "calculateSLAStatus"
    /\ helper.args.given
    /\ helper.args.value - helper.at = 24 * HourMs
    /\ helper.returned = <<"on-track">>
    /\ used.ticks > 0

\* a score as a fraction of hundredths lies in [lo, hi)
InRange(score, lo, hi) == lo <= score /\ score < hi

\* C19: RealTimeMonitor.getRiskLevel and AMLBase.getRiskLevel use the inclusive
\* lower thresholds 0.4/0.7/0.9, AMLDashboard.getRiskLevel uses those of its
\* configuration (0.6/0.8/0.9 of the set 0.3/0.6/0.8/0.9); over all scores in
\* [0, 1] at 0.01 resolution the two classifiers return the same level except for
\* scores in [0.4, 0.6) and [0.7, 0.8), and a score exactly on a threshold
\* belongs to the higher level.
C19_RiskBuckets ==
    helper.fn = "getRiskLevel" =>
        LET score == helper.args.value
            monitor == helper.returned[1]
            base == helper.returned[2]
            dashboard == helper.returned[3]
        IN /\ monitor = base
           /\ monitor = (CASE InRange(score, 0, 40) -> "low"
                           [] InRange(score, 40, 70) -> "medium"
                           [] InRange(score, 70, 90) -> "high"
                           [] OTHER -> "critical")
           /\ dashboard = (CASE InRange(score, 0, 60) -> "low"
                             [] InRange(score, 60, 80) -> "medium"
                             [] InRange(score, 80, 90) -> "high"
                             [] OTHER -> "critical")
           /\ monitor # dashboard <=> (InRange(score, 40, 60) \/ InRange(score, 70, 80))

\* the score 0.8, on a threshold of the dashboard and inside a bucket of the
\* monitor: both classifiers say high
C19_OnThreshold ==
    /\ helper.fn = "getRiskLevel"
    /\ helper.args.value = riskThresholds.high
    /\ helper.returned = <<"high", "high", "high">>

----------------------------------------------------------------------------
\* Case management at work: the page is loaded, the user opens the modals and
\* submits their forms, the server answers.

InitCases == InitQueries /\ page = "CaseManagement"

NextCases ==
    \/ \E m \in CaseModals : \E caseId \in CaseIds : ShowCaseModal(m, caseId)
    \/ \E caseId \in CaseIds : ShowUpdateCaseModal(caseId)
    \/ \E m \in CaseModals : HandleCaseSubmit(m)
    \/ \E c \in inflight : \E status \in RestStatuses : CaseManagementResponse(c, status)

SpecCases == InitCases /\ [][NextCases]_vars

\* the steps of a submit, and of the table of cases
SubmitIssuesOnePut ==
    lastEvent' \in CaseHandlers =>
        /\ \E c \in inflight' :
              /\ inflight' \ inflight = {c}
              /\ c.op = PutOp(ModalOf(lastEvent'))
              /\ requestLog' \ requestLog \subseteq {Request(c.ctl, c.op, Token, c.auth)}
        /\ view' = view
        /\ modal' = modal
TableFromServerOnly ==
    view'["cases/"] # view["cases/"] =>
        \E h \in responseLog' \ responseLog :
            /\ h.call.op = "cases/"
            /\ IsOk(h.status)
            /\ view'["cases/"] = h.call
PutAccepted(h) ==
    /\ ModalOf(h.call.cont) \notin modal'
    /\ \E c \in inflight' \ inflight : c.op = "cases/" /\ c.cont = "loadCases"
    /\ view' = view
PutRefused(h) ==
    /\ view' = view
    /\ modal' = modal
    /\ inflight' \subseteq inflight
    /\ CaseFailText(h.call.op) \in banners'

\* C20 as stated: update, close and escalate each issue exactly one PUT for the
\* case and make no local status transition; after a 2xx response the case table
\* is re-rendered from server data (by the reload the handler starts), and after
\* a non-2xx response or a network failure the table is left unchanged, the modal
\* stays open and an error banner is shown.
C20_PutThenRender ==
    [][/\ SubmitIssuesOnePut
       /\ TableFromServerOnly
       /\ \A h \in responseLog' \ responseLog :
             h.call.cont \in CaseHandlers =>
                 IF IsOk(h.status) THEN PutAccepted(h) ELSE PutRefused(h)]_vars

\* C20, amended: a 401 response to the PUT redirects to the login page and shows
\* no banner; every other non-2xx response and a network failure leave the table
\* unchanged and the modal open and show the error banner of the handler.
C20_PutThenReload ==
    [][/\ SubmitIssuesOnePut
       /\ TableFromServerOnly
       /\ \A h \in responseLog' \ responseLog :
             h.call.cont \in CaseHandlers =>
                 CASE IsOk(h.status) -> PutAccepted(h)
                   [] h.status = 401 ->
                        /\ location' = LoginPage
                        /\ banners' = banners
                        /\ view' = view
                        /\ modal' = modal
                        /\ inflight' \subseteq inflight
                   [] OTHER -> PutRefused(h)]_vars

\* a close was refused with 500 and its modal stayed open with the banner, the
\* second submit was accepted, and the table shows the reload that followed
C20_RefusedThenAccepted ==
    /\ \E h \in responseLog : h.call.op = "PUT cases/id/close" /\ h.status = 500
    /\ \E h \in responseLog : h.call.op = "PUT cases/id/close" /\ h.status = 200
    /\ "Failed to close case" \in banners
    /\ modal = {}
    /\ view["cases/"].cont = "loadCases"

----------------------------------------------------------------------------
\* The dashboards at work: the socket opens, closes and reconnects, the server
\* pushes alerts and transactions, the refresh timer ticks, the fetches are
\* answered.

OpsOf(ctl) == IF ctl = "AMLDashboard" THEN LoadInitialDataOps ELSE LoadInitialDataOps2

\* startPeriodicRefresh: if (!this.isConnected) this.loadInitialData()
RefreshDue_Always(socket) == TRUE
RefreshDue(socket) == socket # "open"

\* the callback of setInterval(..., this.config.refreshInterval); init() starts
\* the timer after it has awaited the first loadInitialData(), and the server
\* answers every fetch within the 30 s of the interval
RefreshTick ==
    /\ page \in Dashboards
    /\ location = "page"
    /\ inflight = {}
    /\ used.ticks < MaxRefreshTicks
    /\ RestStep({}, IF RefreshDue(dashSocket)
                    THEN LoadInitialData(page, OpsOf(page), Token, issued + 1)
                    ELSE Nothing,
                view, "refreshTick", "ticks")

\* handleNewAlert(alert) and handleNewTransaction(transaction) up to their first
\* awaits.  The first definition reloads: loadAlerts() and loadInitialData() for
\* an alert, loadInitialData() for a transaction.  The second definition adds
\* the row and increments the metric cards in place, without a fetch.
PushStarts(ctl, type) ==
    IF ctl = "AMLDashboard2" THEN Nothing
    ELSE IF type = "new_alert"
    THEN LET a == LoadAlerts(Token, issued + 1, 0, "")
             l == LoadInitialData(ctl, OpsOf(ctl), Token, issued + 1 + Cardinality(a.calls))
         IN Started(a.redirect \/ l.redirect, a.calls \cup l.calls, a.shown \cup l.shown)
    ELSE LoadInitialData(ctl, OpsOf(ctl), Token, issued + 1)

\* onmessage of the dashboard's socket with a frame of type new_alert or
\* transaction_processed
DashboardPush(type) ==
    /\ page \in Dashboards
    /\ location = "page"
    /\ dashSocket = "open"
    /\ used.frames < MaxPushes
    /\ RestStep({}, PushStarts(page, type), view, type, "frames")

\* onopen, onclose and the reconnect timer of the dashboard's socket
DashboardSocketEvent(event) ==
    /\ page \in Dashboards
    /\ location = "page"
    /\ CASE event = "socket open" -> dashSocket = "connecting"
         [] event = "socket close" -> dashSocket \in {"connecting", "open"}
         [] event = "socket reconnect" -> dashSocket = "closed"
    /\ RestStep({}, Nothing, view, event, "none")

\* the answers of the server: the statistics fetch of the first cycle may fail,
\* every other fetch succeeds
RefreshStatuses(c) == IF c.cycle = 1 /\ c.op = "dashboard/stats" THEN {200, 500} ELSE {200}

InitDashboard ==
    /\ InitRest
    /\ page \in Dashboards
    /\ Token = "tok"

NextDashboard ==
    \/ \E event \in {"socket open", "socket close", "socket reconnect"} :
          DashboardSocketEvent(event)
    \/ \E type \in {"new_alert", "transaction_processed"} : DashboardPush(type)
    \/ RefreshTick
    \/ \E c \in inflight : \E status \in RefreshStatuses(c) : AMLDashboardResponse(c, status)
    \/ \E c \in inflight : \E status \in RefreshStatuses(c) : AMLDashboardResponse2(c, status)

SpecDashboard == InitDashboard /\ [][NextDashboard]_vars

\* a step issues the first fetch of a refresh cycle
StartsRefresh ==
    \E c \in inflight' \ inflight : c.op = "dashboard/stats" /\ c.seq > issued

----------------------------------------------------------------------------
\* AMLAdminPanel.handleConfigurationSubmit

\* A string is the sequence of its characters.  The characters a user types into
\* a field of the configuration form: letters, digits, the point and the blank.
MaxLen == 3
Chars == {"o", "n", "f", "0", "1", ".", " "}
Digits == {"0", "1"}
DigitValue(c) == IF c = "1" THEN 1 ELSE 0
Strings == UNION {[1..n -> Chars] : n \in 0..MaxLen}
Str_on == <<"o", "n">>
Str_off == <<"o", "f", "f">>

\* a number, or NaN: mant / 10^scale
NaN == [nan |-> TRUE, mant |-> 0, scale |-> 0]
RECURSIVE Num(_, _)
Num(mant, scale) ==
    IF scale > 0 /\ mant % 10 = 0 THEN Num(mant \div 10, scale - 1)
    ELSE [nan |-> FALSE, mant |-> mant, scale |-> scale]

\* StrWhiteSpace stripped from both ends
RECURSIVE Trim(_)
Trim(s) ==
    IF s = <<>> THEN s
    ELSE IF Head(s) = " " THEN Trim(Tail(s))
    ELSE IF s[Len(s)] = " " THEN Trim(SubSeq(s, 1, Len(s) - 1))
    ELSE s

\* StrUnsignedDecimalLiteral without exponent: digits, digits "." digits?, "." digits
IsDecimalLiteral(s) ==
    /\ \E i \in 1..Len(s) : s[i] \in Digits
    /\ \A i \in 1..Len(s) : s[i] \in Digits \cup {"."}
    /\ Cardinality({i \in 1..Len(s) : s[i] = "."}) <= 1

RECURSIVE Mantissa(_)
Mantissa(s) ==
    IF s = <<>> THEN 0
    ELSE IF s[Len(s)] = "." THEN Mantissa(SubSeq(s, 1, Len(s) - 1))
    ELSE 10 * Mantissa(SubSeq(s, 1, Len(s) - 1)) + DigitValue(s[Len(s)])

DecimalValue(s) ==
    LET points == {i \in 1..Len(s) : s[i] = "."}
    IN Num(Mantissa(s), IF points = {} THEN 0 ELSE Len(s) - (CHOOSE i \in points : TRUE))

\* Number(value), the conversion isNaN applies to its argument: blank strings
\* are 0, a decimal literal between blanks is its value, anything else is NaN
ToNumber(s) ==
    IF Trim(s) = <<>> THEN Num(0, 0)
    ELSE IF IsDecimalLiteral(Trim(s)) THEN DecimalValue(Trim(s))
    ELSE NaN

IsNaN(s) == ToNumber(s).nan

\* parseFloat(value): leading blanks are skipped and the longest prefix that is
\* a decimal literal is converted; NaN when there is none
ParseFloat(s) ==
    LET t == Trim(s)
        prefixes == {n \in 1..Len(t) : IsDecimalLiteral(SubSeq(t, 1, n))}
    IN IF prefixes = {} THEN NaN
       ELSE DecimalValue(SubSeq(t, 1, CHOOSE n \in prefixes : \A k \in prefixes : k <= n))

\* the values of a JSON text
JsonBoolean(b) == [type |-> "boolean", bool |-> b, num |-> NaN, text |-> <<>>]
JsonString(s) == [type |-> "string", bool |-> FALSE, num |-> NaN, text |-> s]
JsonNull == [type |-> "null", bool |-> FALSE, num |-> NaN, text |-> <<>>]
\* JSON.stringify writes NaN as null
JsonNumber(n) ==
    IF n.nan THEN JsonNull ELSE [type |-> "number", bool |-> FALSE, num |-> n, text |-> <<>>]

\* a control of the form: a checkbox without a value attribute, or a text input
Checkbox(checked) == [kind |-> "checkbox", checked |-> checked, value |-> Str_on]
TextInput(s) == [kind |-> "text", checked |-> FALSE, value |-> s]
Controls == {Checkbox(b) : b \in BOOLEAN} \cup {TextInput(s) : s \in Strings}

\* new FormData(form).entries(): a checkbox that is not checked has no entry, a
\* checked one has its value, "on" by default; a text input has its text
FormDataEntries(control) ==
    IF control.kind = "checkbox" /\ ~control.checked THEN <<>>
    ELSE <<control.value>>

\* the branches of the loop over formData.entries()
ConfigValue(value) ==
    IF value = Str_on THEN JsonBoolean(TRUE)
    ELSE IF value = Str_off \/ value = <<>> THEN JsonBoolean(FALSE)
    ELSE IF ~IsNaN(value) /\ value # <<>> THEN JsonNumber(ParseFloat(value))
    ELSE JsonString(value)

\* JSON.stringify(config) for a form with the one control: the members of the body
ConfigBody(control) ==
    LET entries == FormDataEntries(control)
    IN [i \in 1..Len(entries) |-> ConfigValue(entries[i])]

\* handleConfigurationSubmit(e) up to its await
HandleConfigurationSubmit(control) ==
    /\ OnPage("AMLAdminPanel")
    /\ used.clicks < MaxClicks
    /\ helper' = [fn |-> "handleConfigurationSubmit", args |-> [given |-> TRUE, value |-> control],
                  at |-> now, returned |-> ConfigBody(control)]
    /\ UNCHANGED <<currentCaseId, openedFor>>
    /\ LET calls == Fetch("AMLAdminPanel", "PUT admin/configuration", issued + 1,
                          "handleConfigurationSubmit", 0, "", AdminGetAuthHeaders(Token).headers)
       IN RestCore({}, Started(FALSE, calls, IF calls = {} THEN {AdminFailText("PUT admin/configuration")} ELSE {}),
                   view, "configurationSubmit", "clicks")

\* the answers of the server: the loads of init() succeed, the PUT may fail
SubmitStatuses(c) == IF c.cont = "handleConfigurationSubmit" THEN {200, 500} ELSE {200}

InitConfiguration ==
    /\ InitRest
    /\ page = "AMLAdminPanel"
    /\ Token = "tok"

NextConfiguration ==
    \/ \E control \in Controls : HandleConfigurationSubmit(control)
    \/ \E c \in inflight : \E status \in SubmitStatuses(c) : AMLAdminPanelResponse(c, status)

SpecConfiguration == InitConfiguration /\ [][NextConfiguration]_vars

\* a string that looks like a number: a decimal literal, blanks around it allowed
NumericLooking(s) == IsDecimalLiteral(Trim(s))

\* C22: on submitting the configuration form a checkbox becomes a boolean (true
\* when checked, false when unchecked), a numeric-looking string becomes that
\* number, and every other string, the empty string and the texts on and off
\* included, is sent as the same string.
C22_Marshalled ==
    helper.fn = "handleConfigurationSubmit" =>
        LET control == helper.args.value
        IN helper.returned =
              IF control.kind = "checkbox" THEN <<JsonBoolean(control.checked)>>
              ELSE IF NumericLooking(control.value)
              THEN <<JsonNumber(DecimalValue(Trim(control.value)))>>
              ELSE <<JsonString(control.value)>>


----------------------------------------------------------------------------
\* RealTimeMonitor: pause and resume

\* the pause button shows Resume from the click that paused monitoring until
\* the next click on it
Paused == panels.pauseBtn = "Resume"

\* C23: after the user pauses monitoring (toggleMonitoring while connected) no
\* WebSocket connection is opened or attempted and no streamed event is
\* ingested until the user toggles monitoring again.
C23_PausedStaysClosed ==
    [][(Paused /\ Paused') =>
          /\ lastEvent' \notin {"reconnect", "open"}
          /\ transactions' = transactions
          /\ alerts' = alerts]_vars


\* the sockets of the monitor that are connecting or open, this.websocket and
\* the ones the field no longer refers to
LiveSockets ==
    (IF cur \in {"connecting", "open"} THEN 1 ELSE 0) + others.connecting + others.open

\* C24: at every moment at most one WebSocket of the monitor is open or
\* connecting, so that isConnected is true exactly when the socket stored in
\* this.websocket is open and no second socket delivers the streamed events
\* once more.
C24_OneLiveSocket ==
    /\ LiveSockets <= 1
    /\ isConnected <=> cur = "open"


----------------------------------------------------------------------------
\* CaseManagement: the case of a submission

\* C25: the case id used in the PUT of an update, close or escalate submission is
\* the id of the case for which the user opened that modal, under every
\* interleaving of modal openings with pending fetches of case details.
C25_PutForOpenedCase ==
    [][lastEvent' \in CaseHandlers =>
          \A c \in inflight' \ inflight : c.query = openedFor[ModalOf(lastEvent')]]_vars


----------------------------------------------------------------------------
\* RealTimeMonitor: what stays in the buffers

\* every item of the buffer before the step is in the buffer after it
Kept(old, new) == \A i \in 1..Len(old) : \E j \in 1..Len(new) : new[j].id = old[i].id

\* C26: a transaction or alert ingested from the stream stays in its buffer
\* until the cap evicts it or the user clears the stream; in particular the
\* responses of the initial load do not discard the events that arrived before
\* them.
C26_IngestedStays ==
    [][lastEvent' # "clear" =>
          /\ Len(transactions') < TransactionCap => Kept(transactions, transactions')
          /\ Len(alerts') < AlertCap => Kept(alerts, alerts')]_vars


----------------------------------------------------------------------------
\* RealTimeMonitor: the displays under a filter

\* every row of the stream and of the alert list whose item is in its buffer
\* shows an item that passes the filter f at the time at
ShownMatch(rows, txs, als, f, at) ==
    \A r \in Range(rows) :
        /\ \A i \in 1..Len(txs) :
              (r.kind = "tx" /\ txs[i].id = r.id) => MatchesFilter(txs[i], f, at)
        /\ \A i \in 1..Len(als) :
              (r.kind = "alert" /\ als[i].id = r.id) => MatchesAlertFilter(als[i], f, at)

\* C27: whenever a filter is active, every transaction shown in the stream and
\* every alert shown in the alert list satisfies the current filter, also after
\* the arrival of items from the stream that follow the setting of the filter.
C27_ShownMatchFilter ==
    [][(filtered'.given /\ lastEvent' \in {"filter", "message"}) =>
          /\ ShownMatch(stream', transactions', alerts', filters', now')
          /\ ShownMatch(alertList', transactions', alerts', filters', now')]_vars


\* the rows of the n first items of a buffer (the buffers hold the newest item
\* first), in the order of the buffer
NewestRows(items, kind, n) == [i \in 1..Min(Len(items), n) |-> [kind |-> kind, id |-> items[i].id]]

\* C28: after a filter change the stream and the alert list show the most recent
\* matching items of the buffer, the 10 newest when more than 10 match, with the
\* newest on top, as streamed arrivals are shown.
C28_NewestOnTop ==
    [][lastEvent' = "filter" =>
          /\ filtered'.transactions # <<>> =>
                stream' = NewestRows(filtered'.transactions, "tx", DisplayCap)
          /\ filtered'.alerts # <<>> =>
                alertList' = NewestRows(filtered'.alerts, "alert", DisplayCap)]_vars


----------------------------------------------------------------------------
\* RealTimeMonitor: the treatment of an alert by its risk score

\* alerts with scores on and next to the thresholds the monitor compares with
RiskScores == {39, 40, 59, 60, 69, 70, 79, 80, 89, 90}
RiskFrames ==
    {[json |-> TRUE, type |-> "alert_generated",
      data |-> Alert(nextId, [risk |-> r, age |-> 0, type |-> FRAUD_TYPE], now)] :
         r \in RiskScores}

NextRisk ==
    \/ SocketOpen(TRUE)
    \/ \E frame \in RiskFrames : CountedSocketMessage(TRUE, frame)
    \/ \E id \in dismissTimers : DismissTimerFire(id)
    \/ Tick

SpecRisk == Init /\ [][NextRisk]_vars

LabelledHigh(a) == GetRiskLevel(a.risk_score) \in {"high", "critical"}

\* the alerts of a buffer in the minute of key that are labelled high or critical
HighLabelledIn(als, key) ==
    Cardinality({j \in 1..Len(als) : MinuteKey(als[j].timestamp) = key /\ LabelledHigh(als[j])})

\* C29: the high-risk treatment of an alert agrees with its risk label: every
\* alert that getRiskLevel labels high or critical plays the alert sound, is
\* counted in the high-risk series of the alert-trends chart and is not
\* auto-dismissed, and every alert whose notification is auto-dismissed after 10
\* seconds is labelled low.
C29_HighRiskAgrees ==
    [][(lastEvent' = "message" /\ lastFrame'.json /\ lastFrame'.type = "alert_generated") =>
          LET a == lastFrame'.data
              key == MinuteKey(a.timestamp)
              trends == charts'.trends
          IN /\ LabelledHigh(a) =>
                   /\ a.id \in sounded'
                   /\ a.id \notin dismissTimers'
                   /\ \E i \in 1..Len(trends.labels) :
                         /\ trends.labels[i] = key
                         /\ trends.d1[i] = HighLabelledIn(alerts', key)
             /\ a.id \in dismissTimers' => GetRiskLevel(a.risk_score) = "low"]_vars


----------------------------------------------------------------------------
\* RealTimeMonitor: the state after a clear

\* a chart without a point that counts or sums an item
NoPoints(chart) == chart.labels = <<>> \/ \A i \in 1..Len(chart.d0) : chart.d0[i] = 0

\* C30: after clearTransactionStream the transactions buffer and the alerts
\* buffer are empty, and the flow, volume, risk-distribution and alert-trends
\* charts are reset: none of them shows a data point derived from a cleared item.
C30_ClearedCharts ==
    [][lastEvent' = "clear" =>
          /\ transactions' = <<>>
          /\ alerts' = <<>>
          /\ NoPoints(charts'.flow)
          /\ NoPoints(charts'.volume)
          /\ NoPoints(charts'.trends)
          /\ charts'.risk = <<0, 0, 0, 0>>]_vars

====
